---------------------------- MODULE Spec2Model ----------------------------
(***************************************************************************)
(* docling-view: coordinate normalisation (core/normalizer.py), document   *)
(* model construction (core/parser.py) and the page-item query, modelled   *)
(* as state machines.                                                      *)
(*                                                                         *)
(* JSON values are records [k, n]: k is the Python type of the value       *)
(* ("absent" when the key is not in its dict), n its numeric content.      *)
(* Strings that the code compares by containment or suffix (labels,        *)
(* references) are sequences of atoms, the string being their              *)
(* concatenation.  Python dicts whose iteration order matters are          *)
(* sequences with unique keys, in insertion order.                         *)
(***************************************************************************)
EXTENDS Integers, Sequences, FiniteSets, TLC

VARIABLES data, pc, exc, page_dimensions, doc, emitted, call

vars == <<data, pc, exc, page_dimensions, doc, emitted, call>>

(***************************************************************************)
(* JSON values                                                             *)
(***************************************************************************)
Absent == [k |-> "absent", n |-> 0]
Null == [k |-> "null", n |-> 0]
BadStr == [k |-> "str", n |-> 0]
Num(n) == [k |-> "num", n |-> n]
NumStr(n) == [k |-> "numstr", n |-> n]

\* dict.get(key, default) on a value that may be absent
Get(v, default) == IF v.k = "absent" THEN default ELSE v

\* float(v): the exception it raises ("none" when it converts) and its value
float_exc(v) ==
    CASE v.k = "str" -> "ValueError"
      [] v.k = "null" -> "TypeError"
      [] OTHER -> "none"

float(v) == v.n

\* the first exception raised by a sequence of evaluations, in order
RECURSIVE FirstExc(_)
FirstExc(excs) ==
    IF excs = <<>> THEN "none"
    ELSE IF Head(excs) # "none" THEN Head(excs)
    ELSE FirstExc(Tail(excs))

(***************************************************************************)
(* core/normalizer.py                                                      *)
(***************************************************************************)
BOTTOMLEFT == "BOTTOMLEFT"
TOPLEFT == "TOPLEFT"
CoordOrigin == {BOTTOMLEFT, TOPLEFT}

\* coord_origin tags: [k, s] with k the Python type and s the string
NoTag == [k |-> "absent", s |-> ""]
NullTag == [k |-> "null", s |-> ""]
Tag(s) == [k |-> "str", s |-> s]

\* str.upper() on the tag strings of the model
upper(s) ==
    CASE s = "bottomleft" -> "BOTTOMLEFT"
      [] s = "TopLeft" -> "TOPLEFT"
      [] s = "center" -> "CENTER"
      [] OTHER -> s

NormalizedBBox(x, y, width, height) ==
    [x |-> x, y |-> y, width |-> width, height |-> height]

is_valid_mut(bbox) == bbox.width >= 0 /\ bbox.height > 0

\* NormalizedBBox.is_valid
is_valid(bbox) == bbox.width > 0 /\ bbox.height > 0

\* a raw box: the keys l, r, t, b and coord_origin of the bbox dict
RawBox(l, t, r, b, origin) ==
    [l |-> l, t |-> t, r |-> r, b |-> b, coord_origin |-> origin]

\* the result of a call: the exception that escaped it, or its value
Raised(e) == [exc |-> e, val |-> NormalizedBBox(0, 0, 0, 0)]
Returned(v) == [exc |-> "none", val |-> v]

BLBox_mut(left, right, top, bottom, page_height) ==
    NormalizedBBox(left, top, right - left, top - bottom)

\* the BOTTOMLEFT branch
BLBox(left, right, top, bottom, page_height) ==
    NormalizedBBox(left, page_height - top, right - left, top - bottom)

TLBox_mut(left, right, top, bottom) ==
    NormalizedBBox(left, top, right - left, top - bottom)

\* the other branch
TLBox(left, right, top, bottom) ==
    NormalizedBBox(left, top, right - left, bottom - top)

normalize_bbox(bbox, page_height) ==
    LET l == Get(bbox.l, Num(0))
        r == Get(bbox.r, Num(0))
        t == Get(bbox.t, Num(0))
        b == Get(bbox.b, Num(0))
        origin_str == Get(bbox.coord_origin, Tag(BOTTOMLEFT))
        origin_exc ==
            IF origin_str.k = "str" /\ upper(origin_str.s) \notin CoordOrigin
            THEN "ValueError" ELSE "none"
        origin == IF origin_str.k = "str" THEN upper(origin_str.s) ELSE "None"
        e == FirstExc(<<float_exc(l), float_exc(r), float_exc(t), float_exc(b),
                        origin_exc>>)
    IN  IF e # "none" THEN Raised(e)
        ELSE IF origin = BOTTOMLEFT
        THEN Returned(BLBox(float(l), float(r), float(t), float(b), page_height))
        ELSE Returned(TLBox(float(l), float(r), float(t), float(b)))

(***************************************************************************)
(* Strings compared by content.  A label or a reference is a sequence of   *)
(* atoms.  No keyword the code searches for lies inside another atom or    *)
(* across two atoms, and references are compared atom-aligned, so          *)
(* `kw in s` is membership of the atom kw and `s.endswith(t)` is the       *)
(* suffix relation on sequences.                                           *)
(***************************************************************************)
Str(s) == [k |-> "str", s |-> s]
NoStr == [k |-> "absent", s |-> <<>>]

\* str.lower() on one atom
lower_atom(a) ==
    CASE a = "Section" -> "section"
      [] a = "TITLE" -> "title"
      [] a = "Table" -> "table"
      [] a = "Header" -> "header"
      [] OTHER -> a

lower(s) == [i \in 1..Len(s) |-> lower_atom(s[i])]

\* kw in s
In(kw, s) == \E i \in 1..Len(s) : s[i] = kw

\* s.endswith(suffix)
endswith(s, suffix) ==
    /\ Len(suffix) <= Len(s)
    /\ SubSeq(s, Len(s) - Len(suffix) + 1, Len(s)) = suffix

(***************************************************************************)
(* core/parser.py: classification                                          *)
(***************************************************************************)
classify_item_type_mut(item) ==
    LET label == lower(Get(item.label, Str(<<>>)).s)
        item_type == lower(Get(item.type, Str(<<>>)).s)
    IN  IF \E f \in {"header", "footer", "page_number"} : In(f, label)
        THEN "furniture"
        ELSE IF In("section", label) \/ In("heading", label) \/ In("title", label)
        THEN "heading"
        ELSE IF In("table", label) \/ item_type = <<"table">>
        THEN "table"
        ELSE IF In("picture", label) \/ In("figure", label) \/ In("image", label)
        THEN "picture"
        ELSE IF In("list", label)
        THEN "list"
        ELSE "text"

classify_item_type(item) ==
    LET label == lower(Get(item.label, Str(<<>>)).s)
        item_type == lower(Get(item.type, Str(<<>>)).s)
    IN  IF In("section", label) \/ In("heading", label) \/ In("title", label)
        THEN "heading"
        ELSE IF In("table", label) \/ item_type = <<"table">>
        THEN "table"
        ELSE IF In("picture", label) \/ In("figure", label) \/ In("image", label)
        THEN "picture"
        ELSE IF In("list", label)
        THEN "list"
        ELSE IF \E f \in {"header", "footer", "page_number"} : In(f, label)
        THEN "furniture"
        ELSE "text"

(***************************************************************************)
(* core/parser.py: the document model                                      *)
(***************************************************************************)
DefaultWidth == 612
DefaultHeight == 792

DocumentItem(id, type, bbox, page_no, label, text, is_furniture) ==
    [id |-> id, type |-> type, bbox |-> bbox, page_no |-> page_no,
     label |-> label, text |-> text, metadata |-> [orig_label |-> label],
     children |-> <<>>, is_furniture |-> is_furniture]

TableCell(bbox, row, col, row_span, col_span, is_header, text) ==
    [bbox |-> bbox, row |-> row, col |-> col, row_span |-> row_span,
     col_span |-> col_span, is_header |-> is_header, text |-> text]

TableItem_mut(id, bbox, page_no, label, cells, num_rows, num_cols) ==
    [id |-> id, type |-> "table", bbox |-> bbox, page_no |-> page_no,
     label |-> label, text |-> <<>>, metadata |-> [orig_label |-> label],
     children |-> <<>>, is_furniture |-> FALSE,
     cells |-> cells, num_rows |-> Len(cells), num_cols |-> num_cols]

TableItem(id, bbox, page_no, label, cells, num_rows, num_cols) ==
    [id |-> id, type |-> "table", bbox |-> bbox, page_no |-> page_no,
     label |-> label, text |-> <<>>, metadata |-> [orig_label |-> label],
     children |-> <<>>, is_furniture |-> FALSE,
     cells |-> cells, num_rows |-> num_rows, num_cols |-> num_cols]

PageData(page_no, width, height) ==
    [page_no |-> page_no, width |-> width, height |-> height, items |-> <<>>]

EmptyDict == [x \in {} |-> x]

ParsedDocument(name, version, pages) ==
    [name |-> name, version |-> version, pages |-> pages, items_by_id |-> EmptyDict]

\* dicts keyed by page number, kept as sequences in insertion order
HasPage(pages, page_no) == \E i \in 1..Len(pages) : pages[i].page_no = page_no

PageAt(pages, page_no) == pages[CHOOSE i \in 1..Len(pages) : pages[i].page_no = page_no]

\* d[entry.page_no] = entry
SetPage(pages, entry) ==
    IF HasPage(pages, entry.page_no)
    THEN [i \in 1..Len(pages) |->
            IF pages[i].page_no = entry.page_no THEN entry ELSE pages[i]]
    ELSE Append(pages, entry)

(***************************************************************************)
(* DoclingParser._extract_page_dimensions                                  *)
(***************************************************************************)
NoSize == [k |-> "absent", width |-> Absent, height |-> Absent]
Size(width, height) == [k |-> "dict", width |-> width, height |-> height]

\* int(page_key) if isinstance(page_key, str) else page_key
page_key_exc(key) == IF key.k = "str" THEN "ValueError" ELSE "none"

\* the width and height read from page_data.get("size", {})
size_width(size) == Get(Get(size, Size(Absent, Absent)).width, Num(DefaultWidth))
size_height(size) == Get(Get(size, Size(Absent, Absent)).height, Num(DefaultHeight))

Dimension(page_no, size) ==
    [page_no |-> page_no, width |-> float(size_width(size)),
     height |-> float(size_height(size))]

RECURSIVE page_dimensions_loop(_, _, _, _)
page_dimensions_loop(form, entries, i, dimensions) ==
    IF i > Len(entries) THEN [exc |-> "none", val |-> dimensions]
    ELSE LET entry == entries[i]
             key_exc == IF form = "dict" THEN page_key_exc(entry.key) ELSE "none"
             page_no == IF form = "dict" THEN entry.key.n ELSE i
             e == FirstExc(<<key_exc, float_exc(size_width(entry.size)),
                             float_exc(size_height(entry.size))>>)
         IN  IF e # "none" THEN [exc |-> e, val |-> dimensions]
             ELSE page_dimensions_loop(form, entries, i + 1,
                                       SetPage(dimensions, Dimension(page_no, entry.size)))

DefaultDimensions_mut(dimensions) == dimensions

\* if not dimensions: dimensions[1] = {"width": 612, "height": 792}
DefaultDimensions(dimensions) ==
    IF dimensions = <<>>
    THEN <<[page_no |-> 1, width |-> DefaultWidth, height |-> DefaultHeight]>>
    ELSE dimensions

extract_page_dimensions(d) ==
    LET pages == Get(d.pages, [k |-> "dict", entries |-> <<>>])
        loop == IF pages.k \in {"dict", "list"}
                THEN page_dimensions_loop(pages.k, pages.entries, 1, <<>>)
                ELSE [exc |-> "none", val |-> <<>>]
    IN  IF loop.exc # "none" THEN loop
        ELSE [exc |-> "none", val |-> DefaultDimensions(loop.val)]

(***************************************************************************)
(* DoclingParser._extract_provenance                                       *)
(***************************************************************************)
EmptyBox == RawBox(Absent, Absent, Absent, Absent, NoTag)
NoBBoxKey == [k |-> "absent", box |-> EmptyBox]
BBox(box) == [k |-> "dict", box |-> box]

prov_page_no_mut(prov) == Get(prov.page, Get(prov.page_no, Num(1))).n

\* prov.get("page_no", prov.get("page", 1))
prov_page_no(prov) == Get(prov.page_no, Get(prov.page, Num(1))).n

\* page_dimensions.get(page_no, {"height": 792})["height"]
page_height_of(dims, page_no) ==
    IF HasPage(dims, page_no) THEN PageAt(dims, page_no).height ELSE DefaultHeight

\* `if not bbox_data`: a missing bbox key or an empty dict
Skips(bbox_data) == bbox_data = EmptyBox

Keeps_mut(bbox) == TRUE

\* `if bbox.is_valid()`
Keeps(bbox) == is_valid(bbox)

RECURSIVE provenance_loop(_, _, _, _)
provenance_loop(prov_list, i, dims, results) ==
    IF i > Len(prov_list) THEN [exc |-> "none", val |-> results]
    ELSE LET prov == prov_list[i]
             page_no == prov_page_no(prov)
             bbox_data == Get(prov.bbox, BBox(EmptyBox)).box
             page_height == page_height_of(dims, page_no)
             n == normalize_bbox(bbox_data, page_height)
         IN  IF Skips(bbox_data)
             THEN provenance_loop(prov_list, i + 1, dims, results)
             ELSE IF n.exc \in {"KeyError", "ValueError"}
             THEN provenance_loop(prov_list, i + 1, dims, results)
             ELSE IF n.exc # "none"
             THEN [exc |-> n.exc, val |-> results]
             ELSE IF Keeps(n.val)
             THEN provenance_loop(prov_list, i + 1, dims,
                                  Append(results, [page_no |-> page_no, bbox |-> n.val]))
             ELSE provenance_loop(prov_list, i + 1, dims, results)

extract_provenance(item, dims) == provenance_loop(item.prov, 1, dims, <<>>)

(***************************************************************************)
(* The collectors.  A collector state st is [doc, emitted, exc]: the       *)
(* Document under construction, the elements constructed so far in order,  *)
(* and the exception that escaped ("none" while running).                  *)
(***************************************************************************)
\* id(item): the identity of the record at position i of collection coll
ObjId(coll, i) == <<coll, ToString(i)>>

\* item.get("self_ref", item.get("id", f"<prefix>{id(item)}"))
item_id_of(item, prefix, coll, i) ==
    Get(item.self_ref, Get(item.id, Str(<<prefix>> \o ObjId(coll, i)))).s

AppendItem_mut(pages, item) ==
    [i \in 1..Len(pages) |->
        IF pages[i].page_no = item.page_no
        THEN [pages[i] EXCEPT !.items = <<item>> \o @]
        ELSE pages[i]]

AppendItem(pages, item) ==
    [i \in 1..Len(pages) |->
        IF pages[i].page_no = item.page_no
        THEN [pages[i] EXCEPT !.items = Append(@, item)]
        ELSE pages[i]]

\* if page_no in doc.pages: doc.pages[page_no].items.append(item)
AddToPage(pages, item) ==
    IF HasPage(pages, item.page_no) THEN AppendItem(pages, item) ELSE pages

IndexItem_mut(items_by_id, item) == items_by_id @@ (item.id :> item)

\* doc.items_by_id[item_id] = item
IndexItem(items_by_id, item) == (item.id :> item) @@ items_by_id

Emit(st, item) ==
    [st EXCEPT !.doc.items_by_id = IndexItem(@, item),
               !.doc.pages = AddToPage(@, item),
               !.emitted = Append(@, item)]

RECURSIVE EmitAll(_, _)
EmitAll(st, items) ==
    IF items = <<>> THEN st ELSE EmitAll(Emit(st, Head(items)), Tail(items))

Raise(st, e) == [st EXCEPT !.exc = e]

\* DoclingParser._collect_texts
RECURSIVE collect_texts(_, _, _, _)
collect_texts(texts, i, st, dims) ==
    IF i > Len(texts) \/ st.exc # "none" THEN st
    ELSE LET item == texts[i]
             item_id == item_id_of(item, "text_", "texts", i)
             label == Get(item.label, Str(<<"text">>)).s
             text == Get(item.text, Str(<<>>)).s
             item_type == classify_item_type(item)
             prov == extract_provenance(item, dims)
             items == [j \in 1..Len(prov.val) |->
                          DocumentItem(item_id, item_type, prov.val[j].bbox,
                                       prov.val[j].page_no, label, text, FALSE)]
         IN  collect_texts(texts, i + 1,
                           IF prov.exc # "none" THEN Raise(st, prov.exc)
                           ELSE EmitAll(st, items),
                           dims)

\* DoclingParser._collect_pictures
RECURSIVE collect_pictures(_, _, _, _)
collect_pictures(pictures, i, st, dims) ==
    IF i > Len(pictures) \/ st.exc # "none" THEN st
    ELSE LET item == pictures[i]
             item_id == item_id_of(item, "picture_", "pictures", i)
             label == Get(item.label, Str(<<"picture">>)).s
             prov == extract_provenance(item, dims)
             items == [j \in 1..Len(prov.val) |->
                          DocumentItem(item_id, "picture", prov.val[j].bbox,
                                       prov.val[j].page_no, label, <<>>, FALSE)]
         IN  collect_pictures(pictures, i + 1,
                              IF prov.exc # "none" THEN Raise(st, prov.exc)
                              ELSE EmitAll(st, items),
                              dims)

\* item_ref == ref or ref.endswith(item_ref), item_ref = item.get("self_ref", "")
Matches(ref, item) ==
    LET item_ref == Get(item.self_ref, Str(<<>>)).s
    IN  item_ref = ref \/ endswith(ref, item_ref)

\* child_ref.get("$ref", "") if isinstance(child_ref, dict) else str(child_ref)
ref_of(child_ref) == Get(child_ref.ref, Str(<<>>)).s

FurnitureType_mut(item) == classify_item_type(item)

\* type="furniture"
FurnitureType(item) == "furniture"

\* the inner loop of _collect_furniture: the text records matched by one ref
RECURSIVE furniture_texts(_, _, _, _, _)
furniture_texts(ref, texts, i, st, dims) ==
    IF i > Len(texts) \/ st.exc # "none" THEN st
    ELSE LET item == texts[i]
             item_id == item_id_of(item, "furniture_", "texts", i)
             label == Get(item.label, Str(<<"furniture">>)).s
             text == Get(item.text, Str(<<>>)).s
             prov == extract_provenance(item, dims)
             items == [j \in 1..Len(prov.val) |->
                          DocumentItem(item_id, FurnitureType(item), prov.val[j].bbox,
                                       prov.val[j].page_no, label, text, TRUE)]
         IN  furniture_texts(ref, texts, i + 1,
                             IF ~Matches(ref, item) THEN st
                             ELSE IF prov.exc # "none" THEN Raise(st, prov.exc)
                             ELSE EmitAll(st, items),
                             dims)

RECURSIVE furniture_children(_, _, _, _, _)
furniture_children(children, c, texts, st, dims) ==
    IF c > Len(children) \/ st.exc # "none" THEN st
    ELSE furniture_children(children, c + 1, texts,
                            furniture_texts(ref_of(children[c]), texts, 1, st, dims),
                            dims)

\* DoclingParser._collect_furniture; `if not furniture: return` takes a
\* missing key and an empty dict alike
collect_furniture(d, st, dims) ==
    LET furniture == d.furniture
    IN  IF furniture.k = "absent" \/ furniture.children.k = "absent" THEN st
        ELSE furniture_children(furniture.children.items, 1, d.texts, st, dims)

\* the grid of a table: each entry is a row [k |-> "list", row] or a cell
\* [k |-> "dict", cell]; the form is decided by the first entry alone
NoGrid == [k |-> "absent", entries |-> <<>>]
Grid(entries) == [k |-> "list", entries |-> entries]
Row(cells) == [k |-> "list", row |-> cells]
Cell(cell) == [k |-> "dict", cell |-> cell]

RECURSIVE Flatten(_)
Flatten(grid) ==
    IF grid = <<>> THEN <<>> ELSE Head(grid).row \o Flatten(Tail(grid))

cells_to_process_mut(grid) ==
    IF grid # <<>> /\ grid[1].k = "list" THEN Head(grid).row
    ELSE [i \in 1..Len(grid) |-> grid[i].cell]

\* lines 307-315: a grid whose first entry is a list is flattened row by row
cells_to_process(grid) ==
    IF grid # <<>> /\ grid[1].k = "list" THEN Flatten(grid)
    ELSE [i \in 1..Len(grid) |-> grid[i].cell]

\* the cell loop of _collect_tables: normalize_bbox is called outside any try
\* and its result is not tested
RECURSIVE parse_cells(_, _, _, _)
parse_cells(cells, i, page_height, out) ==
    IF i > Len(cells) THEN [exc |-> "none", val |-> out]
    ELSE LET cell_data == cells[i]
             cell_bbox_data == Get(cell_data.bbox, BBox(EmptyBox)).box
             n == normalize_bbox(cell_bbox_data, page_height)
             cell == TableCell(n.val,
                               Get(cell_data.row, Get(cell_data.start_row_offset_idx, Num(0))).n,
                               Get(cell_data.col, Get(cell_data.start_col_offset_idx, Num(0))).n,
                               Get(cell_data.row_span, Num(1)).n,
                               Get(cell_data.col_span, Num(1)).n,
                               cell_data.column_header \/ cell_data.row_header,
                               Get(cell_data.text, Str(<<>>)).s)
         IN  IF cell_bbox_data = EmptyBox
             THEN parse_cells(cells, i + 1, page_height, out)
             ELSE IF n.exc # "none"
             THEN [exc |-> n.exc, val |-> out]
             ELSE parse_cells(cells, i + 1, page_height, Append(out, cell))

NoTableData == [k |-> "absent", grid |-> NoGrid, table_cells |-> NoGrid,
                num_rows |-> Absent, num_cols |-> Absent]

\* the loop of _collect_tables over the occurrences of one table record
RECURSIVE table_occurrences(_, _, _, _, _, _, _)
table_occurrences(item, item_id, label, results, j, st, dims) ==
    IF j > Len(results) \/ st.exc # "none" THEN st
    ELSE LET page_no == results[j].page_no
             table_data == Get(item.data, NoTableData)
             grid == Get(table_data.grid, Get(table_data.table_cells, Grid(<<>>))).entries
             page_height == page_height_of(dims, page_no)
             cells == parse_cells(cells_to_process(grid), 1, page_height, <<>>)
             table_item == TableItem(item_id, results[j].bbox, page_no, label, cells.val,
                                     Get(table_data.num_rows, Num(0)).n,
                                     Get(table_data.num_cols, Num(0)).n)
         IN  table_occurrences(item, item_id, label, results, j + 1,
                               IF cells.exc # "none" THEN Raise(st, cells.exc)
                               ELSE Emit(st, table_item),
                               dims)

\* DoclingParser._collect_tables
RECURSIVE collect_tables(_, _, _, _)
collect_tables(tables, i, st, dims) ==
    IF i > Len(tables) \/ st.exc # "none" THEN st
    ELSE LET item == tables[i]
             item_id == item_id_of(item, "table_", "tables", i)
             label == Get(item.label, Str(<<"table">>)).s
             prov == extract_provenance(item, dims)
         IN  collect_tables(tables, i + 1,
                            IF prov.exc # "none" THEN Raise(st, prov.exc)
                            ELSE table_occurrences(item, item_id, label, prov.val, 1, st, dims),
                            dims)

(***************************************************************************)
(* ParsedDocument.get_page_items                                           *)
(***************************************************************************)
\* [i for i in items if i.type in element_types] (element_types = <<>>: all)
\* and [i for i in items if not i.is_furniture] (drop_furniture), in order
RECURSIVE Filter(_, _, _)
Filter(items, element_types, drop_furniture) ==
    IF items = <<>> THEN <<>>
    ELSE LET i == Head(items)
             keep == /\ (element_types = <<>> \/ In(i.type, element_types))
                     /\ (~drop_furniture \/ ~i.is_furniture)
         IN  (IF keep THEN <<i>> ELSE <<>>) \o Filter(Tail(items), element_types, drop_furniture)

NoTypes == [k |-> "null", s |-> <<>>]

get_page_items_mut(d, page_no, element_types, include_furniture) ==
    IF ~HasPage(d.pages, page_no) THEN <<>>
    ELSE Filter(PageAt(d.pages, page_no).items, element_types.s, FALSE)

\* `if element_types:` is false for None and for the empty list
get_page_items(d, page_no, element_types, include_furniture) ==
    IF ~HasPage(d.pages, page_no) THEN <<>>
    ELSE LET items == PageAt(d.pages, page_no).items
             typed == IF element_types.k = "null" \/ element_types.s = <<>>
                      THEN items ELSE Filter(items, element_types.s, FALSE)
         IN  IF ~include_furniture THEN Filter(typed, <<>>, TRUE) ELSE typed

(***************************************************************************)
(* Inputs: the raw documents handed to parse()                             *)
(***************************************************************************)
MaxProv == 2
MaxTexts == 2
MaxTables == 1
MaxPictures == 1
MaxCells == 2
MaxDeclaredPages == 2

SeqsOf(S, lo, hi) == UNION {[1..n -> S] : n \in lo..hi}

\* references
T0 == <<"#", "/texts", "/0">>
T1 == <<"#", "/texts", "/1">>
Tb0 == <<"#", "/tables", "/0">>
Pic0 == <<"#", "/pictures", "/0">>

\* raw boxes, by what becomes of them
BoxBL == RawBox(Num(10), Num(30), Num(30), Num(10), NoTag)
BoxTL == RawBox(Num(10), Num(10), Num(30), Num(30), Tag(TOPLEFT))
BoxNumStr == RawBox(NumStr(10), Num(30), NumStr(40), Num(10), Tag("bottomleft"))
BoxPartial == RawBox(Absent, Num(30), Num(30), Absent, NoTag)
BoxFlat == RawBox(Num(10), Num(30), Num(10), Num(10), Tag(BOTTOMLEFT))
BoxInverted == RawBox(Num(10), Num(10), Num(30), Num(30), NoTag)
BoxTagOnly == RawBox(Absent, Absent, Absent, Absent, Tag(TOPLEFT))
BoxBadNum == RawBox(BadStr, Num(30), Num(30), Num(10), NoTag)
BoxNull == RawBox(Num(10), Null, Num(30), Num(10), NoTag)
BoxBadTag == RawBox(Num(10), Num(30), Num(30), Num(10), Tag("center"))

ProvBoxes ==
    {NoBBoxKey} \cup
    {BBox(b) : b \in {EmptyBox, BoxBL, BoxTL, BoxNumStr, BoxPartial, BoxFlat,
                      BoxInverted, BoxTagOnly, BoxBadNum, BoxNull, BoxBadTag}}

Prov(page_no, page, bbox) == [page_no |-> page_no, page |-> page, bbox |-> bbox]

\* every way of naming a page, with every box
ProvEntries ==
    {Prov(pg[1], pg[2], b) :
        pg \in {<<Num(1), Absent>>, <<Num(2), Absent>>, <<Num(3), Absent>>,
                <<Absent, Num(2)>>, <<Num(1), Num(2)>>, <<Absent, Absent>>},
        b \in ProvBoxes}

P1 == Prov(Num(1), Absent, BBox(BoxBL))
P2 == Prov(Num(2), Absent, BBox(BoxTL))
P3 == Prov(Num(3), Absent, BBox(BoxBL))
PNoBBox == Prov(Num(1), Absent, NoBBoxKey)
PFlat == Prov(Num(1), Absent, BBox(BoxFlat))
PBadNum == Prov(Num(2), Absent, BBox(BoxBadNum))
PNull == Prov(Num(1), Absent, BBox(BoxNull))

CoreEntries == {P1, P2, P3, PNoBBox, PFlat, PBadNum, PNull,
                Prov(Absent, Num(2), BBox(BoxBL)), Prov(Num(1), Absent, BBox(BoxTL))}

ProvLists == SeqsOf(ProvEntries, 0, 1) \cup SeqsOf(CoreEntries, 2, MaxProv)

\* labels
LabelText == Str(<<"text">>)
LabelPageHeader == Str(<<"page_", "header">>)
LabelSectionHeader == Str(<<"section", "_", "header">>)

TextRec(self_ref, label, text, prov) ==
    [self_ref |-> self_ref, id |-> NoStr, label |-> label, type |-> NoStr,
     text |-> text, prov |-> prov]

PictureRec(self_ref, prov) ==
    [self_ref |-> self_ref, id |-> NoStr, label |-> NoStr, prov |-> prov]

TableRec(self_ref, prov, table_data) ==
    [self_ref |-> self_ref, id |-> NoStr, label |-> NoStr, prov |-> prov,
     data |-> table_data]

\* pages
IntKey(n) == [k |-> "int", n |-> n]
StrKey(n) == [k |-> "numstr", n |-> n]
BadKey == [k |-> "str", n |-> 0]

PageEntry(key, size) == [key |-> key, size |-> size]

NoPages == [k |-> "absent", entries |-> <<>>]
Pages(form, entries) == [k |-> form, entries |-> entries]

TwoPages ==
    Pages("dict", <<PageEntry(StrKey(1), Size(Num(DefaultWidth), Num(DefaultHeight))),
                    PageEntry(StrKey(2), Size(Num(200), Num(100)))>>)

PagesInputs ==
    {NoPages, Pages("null", <<>>)}
    \cup {Pages("dict", e) :
            e \in SeqsOf({PageEntry(key, size) :
                            key \in {StrKey(1), StrKey(2), IntKey(2), BadKey},
                            size \in {NoSize, Size(Num(200), Num(100))}},
                         0, MaxDeclaredPages)}
    \cup {Pages("list", e) :
            e \in SeqsOf({PageEntry(IntKey(0), size) :
                            size \in {NoSize, Size(Absent, Num(100))}},
                         0, MaxDeclaredPages)}
    \cup {Pages("dict", <<PageEntry(StrKey(1), size)>>) :
            size \in {Size(Num(0), Num(0)), Size(BadStr, Num(100)), Size(Num(200), Null)}}

\* furniture
NoFurniture == [k |-> "absent", children |-> [k |-> "absent", items |-> <<>>]]
EmptyFurniture == [k |-> "dict", children |-> [k |-> "absent", items |-> <<>>]]
Furniture(children) == [k |-> "dict", children |-> [k |-> "list", items |-> children]]
RefDict(ref) == [k |-> "dict", ref |-> ref]
RefStr(s) == [k |-> "str", ref |-> Str(s)]

FurnitureInputs ==
    {NoFurniture, EmptyFurniture, Furniture(<<>>),
     Furniture(<<RefDict(Str(T0))>>),
     Furniture(<<RefStr(T1)>>),
     Furniture(<<RefDict(Str(<<"doc">> \o T0))>>),
     Furniture(<<RefDict(Str(T0)), RefDict(Str(T1))>>),
     Furniture(<<RefDict(NoStr)>>)}

Data(pages, texts, tables, pictures, furniture) ==
    [schema_name |-> Str(<<"DoclingDocument">>), version |-> NoStr,
     pages |-> pages, texts |-> texts, tables |-> tables, pictures |-> pictures,
     furniture |-> furniture]

\* table cells
CellRec(bbox, row, start_row, col, start_col, column_header, row_header, text) ==
    [bbox |-> bbox, row |-> row, start_row_offset_idx |-> start_row,
     col |-> col, start_col_offset_idx |-> start_col,
     row_span |-> Absent, col_span |-> Absent,
     column_header |-> column_header, row_header |-> row_header, text |-> text]

CellHeader == CellRec(BBox(BoxBL), Num(0), Absent, Num(0), Absent, TRUE, FALSE, Str(<<"h">>))
CellBody == CellRec(BBox(BoxTL), Absent, Num(1), Absent, Num(1), FALSE, FALSE, Str(<<"b">>))
CellRowHeader == CellRec(BBox(BoxNumStr), Num(1), Num(0), Absent, Absent, FALSE, TRUE, NoStr)
CellNoBBox == CellRec(NoBBoxKey, Num(1), Absent, Num(1), Absent, FALSE, FALSE, Str(<<"b">>))
CellFlat == CellRec(BBox(BoxFlat), Num(1), Absent, Num(0), Absent, FALSE, FALSE, NoStr)
CellBadTag == CellRec(BBox(BoxBadTag), Num(0), Absent, Num(1), Absent, FALSE, FALSE, NoStr)
CellNull == CellRec(BBox(BoxNull), Num(0), Absent, Num(1), Absent, FALSE, FALSE, NoStr)

CellRecs == {CellHeader, CellBody, CellRowHeader, CellNoBBox, CellFlat, CellBadTag, CellNull}
GridCells == {CellHeader, CellBody, CellNoBBox}

TableData(grid, cell_list, num_rows, num_cols) ==
    [k |-> "dict", grid |-> grid, table_cells |-> cell_list,
     num_rows |-> num_rows, num_cols |-> num_cols]

FlatGrids == {[i \in 1..Len(cs) |-> Cell(cs[i])] : cs \in SeqsOf(CellRecs, 0, MaxCells)}

RowGrids ==
    {[i \in 1..Len(rows) |-> Row(rows[i])] :
        rows \in SeqsOf(SeqsOf(GridCells, 0, MaxCells), 1, 2)}

TableDatas ==
    {NoTableData}
    \cup {TableData(Grid(g), NoGrid, Num(3), Num(2)) : g \in FlatGrids \cup RowGrids}
    \cup {TableData(NoGrid, Grid(g), Absent, Absent) : g \in FlatGrids}

TableWithCells ==
    TableData(Grid(<<Cell(CellHeader), Cell(CellBody)>>), NoGrid, Num(3), Num(2))

TableWithRows ==
    TableData(Grid(<<Row(<<CellHeader>>), Row(<<CellFlat>>)>>), NoGrid, Absent, Num(1))

SmallTableRecs ==
    {TableRec(Str(Tb0), <<P1>>, TableWithCells),
     TableRec(Str(Tb0), <<P2, P1>>, TableWithRows),
     TableRec(Str(T0), <<P2, P1>>, NoTableData),
     TableRec(Str(T0), <<PFlat, P3>>, TableWithCells),
     TableRec(NoStr, <<P1>>, TableWithRows),
     TableRec(NoStr, <<PFlat, P3>>, NoTableData)}

PictureRecs ==
    {PictureRec(Str(Pic0), <<P1>>),
     PictureRec(Str(T0), <<P2, P3>>),
     PictureRec(NoStr, <<P2, P3>>),
     PictureRec(NoStr, <<PNoBBox>>)}

BreadthTexts ==
    {TextRec(ref, lp[1], Str(<<"a">>), lp[2]) :
        ref \in {Str(T0), Str(T1), NoStr},
        lp \in {<<LabelText, <<P1>>>>, <<LabelText, <<P2, P3>>>>,
                <<LabelPageHeader, <<P2, P3>>>>}}

\* one text record in depth: every occurrence list
OccurrenceDocs ==
    {Data(TwoPages, <<TextRec(Str(T0), LabelText, Str(<<"a">>), prov)>>, <<>>, <<>>,
          NoFurniture) : prov \in ProvLists}

\* every page declaration
PageDocs ==
    {Data(pages, texts, <<>>, <<>>, NoFurniture) :
        pages \in PagesInputs,
        texts \in {<<>>, <<TextRec(Str(T0), LabelSectionHeader, NoStr, <<P1, P2>>)>>}}

\* several text records and the furniture container
FurnitureDocs ==
    {Data(TwoPages, texts, <<>>, <<>>, furniture) :
        texts \in SeqsOf(BreadthTexts, 0, MaxTexts), furniture \in FurnitureInputs}

\* one table in depth: every cell grid
GridDocs ==
    {Data(TwoPages, <<>>, <<TableRec(Str(Tb0), <<P1>>, td)>>, <<>>, NoFurniture) :
        td \in TableDatas}

\* tables and pictures beside a text record
TableDocs ==
    {Data(TwoPages, texts, tables, pictures, furniture) :
        texts \in {<<>>, <<TextRec(Str(T0), LabelText, Str(<<"a">>), <<P1>>)>>},
        tables \in SeqsOf(SmallTableRecs, 0, MaxTables),
        pictures \in SeqsOf(PictureRecs, 0, MaxPictures),
        furniture \in {NoFurniture, Furniture(<<RefDict(Str(T0))>>)}}

RawDocuments == OccurrenceDocs \cup PageDocs \cup FurnitureDocs \cup GridDocs \cup TableDocs

(***************************************************************************)
(* DoclingParser.parse, step by step                                       *)
(***************************************************************************)
NoDocument == ParsedDocument(<<>>, <<>>, <<>>)
NoCall == [op |-> "none"]

InitWith(S) ==
    /\ data \in S
    /\ pc = "start"
    /\ exc = "none"
    /\ page_dimensions = <<>>
    /\ doc = NoDocument
    /\ emitted = <<>>
    /\ call = NoCall

Init == InitWith(RawDocuments)

\* parse(), lines 153-164: the page dimensions and the empty Document
ExtractPageDimensions ==
    /\ pc = "start"
    /\ LET r == extract_page_dimensions(data)
           version == Get(data.schema_name, Get(data.version, Str(<<"unknown">>))).s
       IN  IF r.exc # "none"
           THEN /\ pc' = "raised"
                /\ exc' = r.exc
                /\ UNCHANGED <<page_dimensions, doc>>
           ELSE /\ pc' = "texts"
                /\ page_dimensions' = r.val
                /\ doc' = ParsedDocument(<<"document">>, version,
                              [i \in 1..Len(r.val) |->
                                  PageData(r.val[i].page_no, r.val[i].width, r.val[i].height)])
                /\ UNCHANGED exc
    /\ UNCHANGED <<data, emitted, call>>

\* the state a collector leaves: on an escaping exception parse() is over
Collected(st, next) ==
    /\ doc' = st.doc
    /\ emitted' = st.emitted
    /\ exc' = st.exc
    /\ pc' = IF st.exc = "none" THEN next ELSE "raised"
    /\ UNCHANGED <<data, page_dimensions, call>>

Running == [doc |-> doc, emitted |-> emitted, exc |-> "none"]

CollectTexts ==
    /\ pc = "texts"
    /\ Collected(collect_texts(data.texts, 1, Running, page_dimensions), "tables")

CollectTables ==
    /\ pc = "tables"
    /\ Collected(collect_tables(data.tables, 1, Running, page_dimensions), "pictures")

CollectPictures ==
    /\ pc = "pictures"
    /\ Collected(collect_pictures(data.pictures, 1, Running, page_dimensions), "furniture")

CollectFurniture ==
    /\ pc = "furniture"
    /\ Collected(collect_furniture(data, Running, page_dimensions), "done")

Next ==
    \/ ExtractPageDimensions
    \/ CollectTexts
    \/ CollectTables
    \/ CollectPictures
    \/ CollectFurniture

Spec == Init /\ [][Next]_vars

\* DoclingParser.parse as one call: the exception that escaped it, or the
\* Document it returned
parse(d) ==
    LET r == extract_page_dimensions(d)
        version == Get(d.schema_name, Get(d.version, Str(<<"unknown">>))).s
        st0 == [doc |-> ParsedDocument(<<"document">>, version,
                            [i \in 1..Len(r.val) |->
                                PageData(r.val[i].page_no, r.val[i].width, r.val[i].height)]),
                emitted |-> <<>>, exc |-> "none"]
        texts == collect_texts(d.texts, 1, st0, r.val)
        tables == collect_tables(d.tables, 1, texts, r.val)
        pictures == collect_pictures(d.pictures, 1, tables, r.val)
        furniture == collect_furniture(d, pictures, r.val)
    IN  IF r.exc # "none" THEN [exc |-> r.exc, doc |-> NoDocument]
        ELSE IF texts.exc # "none" THEN [exc |-> texts.exc, doc |-> NoDocument]
        ELSE IF tables.exc # "none" THEN [exc |-> tables.exc, doc |-> NoDocument]
        ELSE IF pictures.exc # "none" THEN [exc |-> pictures.exc, doc |-> NoDocument]
        ELSE [exc |-> furniture.exc,
              doc |-> IF furniture.exc # "none" THEN NoDocument ELSE furniture.doc]

(***************************************************************************)
(* Calls of get_page_items on the Document parse() returned                *)
(***************************************************************************)
QueryPages == {1, 2, 3}

TypeFilters ==
    {NoTypes, Str(<<>>), Str(<<"table">>), Str(<<"text", "furniture">>),
     Str(<<"picture", "heading">>)}

\* documents with several elements of several categories on a page
QueryDocuments == FurnitureDocs \cup TableDocs

InitQuery == InitWith(QueryDocuments)

GetPageItems ==
    /\ pc = "done"
    /\ call = NoCall
    /\ \E page_no \in QueryPages, element_types \in TypeFilters, include_furniture \in BOOLEAN :
          call' = [op |-> "get_page_items", page_no |-> page_no,
                   element_types |-> element_types,
                   include_furniture |-> include_furniture,
                   ret |-> get_page_items(doc, page_no, element_types, include_furniture)]
    /\ UNCHANGED <<data, pc, exc, page_dimensions, doc, emitted>>

NextQuery ==
    \/ ExtractPageDimensions
    \/ CollectTexts
    \/ CollectTables
    \/ CollectPictures
    \/ CollectFurniture
    \/ GetPageItems

SpecQuery == InitQuery /\ [][NextQuery]_vars

(***************************************************************************)
(* Calls of CoordinateNormalizer.normalize_bbox: one raw box, normalised   *)
(* for one page height after another                                       *)
(***************************************************************************)
NoData == Data(NoPages, <<>>, <<>>, <<>>, NoFurniture)

Idle ==
    /\ data = NoData
    /\ pc = "idle"
    /\ exc = "none"
    /\ page_dimensions = <<>>
    /\ doc = NoDocument
    /\ emitted = <<>>

CoordValues == {Absent, Num(-5), Num(10), Num(30), NumStr(20), BadStr, Null}

OriginTags ==
    {NoTag, NullTag, Tag(BOTTOMLEFT), Tag(TOPLEFT), Tag("bottomleft"), Tag("TopLeft"),
     Tag("center")}

PageHeights == {50, 100, DefaultHeight}

RawBoxes ==
    {RawBox(l, t, r, b, origin) :
        l \in CoordValues, t \in CoordValues, r \in CoordValues, b \in CoordValues,
        origin \in OriginTags}

InitNormalize ==
    /\ Idle
    /\ \E bbox \in RawBoxes :
          call = [op |-> "normalize_bbox", bbox |-> bbox, results |-> EmptyDict]

NormalizeBBox ==
    /\ call.op = "normalize_bbox"
    /\ \E page_height \in PageHeights \ DOMAIN call.results :
          call' = [call EXCEPT !.results =
                      (page_height :> normalize_bbox(call.bbox, page_height)) @@ @]
    /\ UNCHANGED <<data, pc, exc, page_dimensions, doc, emitted>>

NextNormalize == NormalizeBBox

SpecNormalize == InitNormalize /\ [][NextNormalize]_vars

(***************************************************************************)
(* Calls of DoclingParser._classify_item_type                              *)
(***************************************************************************)
MaxLabelAtoms == 2

LabelAtoms ==
    {"section", "heading", "title", "table", "picture", "figure", "image", "list",
     "header", "footer", "page_number", "Section", "TITLE", "Table", "Header",
     "_", "text", "page_"}

ClassifyItems ==
    {[label |-> label, type |-> type] :
        label \in {NoStr} \cup {Str(s) : s \in SeqsOf(LabelAtoms, 0, MaxLabelAtoms)},
        type \in {NoStr, Str(<<"table">>), Str(<<"Table">>), Str(<<"text">>)}}

InitClassify ==
    /\ Idle
    /\ \E item \in ClassifyItems :
          call = [op |-> "classify_item_type", item |-> item, st |-> "pending", ret |-> ""]

ClassifyItemType ==
    /\ call.op = "classify_item_type"
    /\ call.st = "pending"
    /\ call' = [call EXCEPT !.st = "returned", !.ret = classify_item_type(call.item)]
    /\ UNCHANGED <<data, pc, exc, page_dimensions, doc, emitted>>

NextClassify == ClassifyItemType

SpecClassify == InitClassify /\ [][NextClassify]_vars

(***************************************************************************)
(* renderers/overlay.py and renderers/assets.py.  The numbers the adapter  *)
(* computes are quotients and products of the stored numbers: they are     *)
(* kept as fractions [n, d] in lowest terms with d > 0, so that equal      *)
(* numbers are equal values.                                               *)
(***************************************************************************)
Abs(a) == IF a < 0 THEN -a ELSE a

RECURSIVE Gcd(_, _)
Gcd(a, b) == IF b = 0 THEN a ELSE Gcd(b, a % b)

\* the fraction n / d, d # 0
Frac(n, d) ==
    LET g == Gcd(Abs(n), Abs(d))
        s == IF d < 0 THEN -1 ELSE 1
    IN  [n |-> (s * n) \div g, d |-> (s * d) \div g]

\* a * f for a stored number a and a factor f
Times(a, f) == Frac(a * f.n, f.d)

\* a / b, which raises ZeroDivisionError for b = 0
div_exc(b) == IF b = 0 THEN "ZeroDivisionError" ELSE "none"

\* a rendered page image: the fields of PageImage the adapter reads
PageImage(page_no, filename, width_px, height_px) ==
    [page_no |-> page_no, filename |-> filename,
     width_px |-> width_px, height_px |-> height_px]

\* PageImage.path
path(img) == <<"assets/">> \o img.filename

NoImage == [k |-> "none"]
Image(img) == [k |-> "image", img |-> img]

\* image_map = {img.page_no: img for img in page_images}; image_map.get(page_no):
\* of several images for one page the last one stays
RECURSIVE image_map_get(_, _)
image_map_get(page_images, page_no) ==
    IF page_images = <<>> THEN NoImage
    ELSE LET last == page_images[Len(page_images)]
         IN  IF last.page_no = page_no THEN Image(last)
             ELSE image_map_get(SubSeq(page_images, 1, Len(page_images) - 1), page_no)

sorted_pages_mut(pages) == pages

\* sorted(parsed_doc.pages.items()): ascending page_no, the keys being distinct
RECURSIVE sorted_pages(_)
sorted_pages(pages) ==
    IF pages = <<>> THEN <<>>
    ELSE LET m == CHOOSE i \in 1..Len(pages) :
                      \A j \in 1..Len(pages) : pages[i].page_no <= pages[j].page_no
         IN  <<pages[m]>> \o
             sorted_pages(SubSeq(pages, 1, m - 1) \o SubSeq(pages, m + 1, Len(pages)))

TextLimit == 200
CellTextLimit == 100

truncate_mut(text, limit) == text

\* text[:limit] if text else ""
truncate(text, limit) ==
    IF Len(text) <= limit THEN text ELSE SubSeq(text, 1, limit)

scale_bbox_xy_mut(bbox, x_scale, y_scale) ==
    [ret |-> [x |-> Times(bbox.x, x_scale), y |-> Times(bbox.y, y_scale),
              width |-> Times(bbox.width, x_scale), height |-> Times(bbox.height, y_scale)],
     src |-> NormalizedBBox(bbox.x * x_scale.n, bbox.y * y_scale.n,
                            bbox.width * x_scale.n, bbox.height * y_scale.n)]

\* OverlayRenderer._scale_bbox_xy: ret is the dict it returns, src the source
\* rectangle after the call, which the code only reads
scale_bbox_xy(bbox, x_scale, y_scale) ==
    [ret |-> [x |-> Times(bbox.x, x_scale), y |-> Times(bbox.y, y_scale),
              width |-> Times(bbox.width, x_scale), height |-> Times(bbox.height, y_scale)],
     src |-> bbox]

\* OverlayRenderer._scale_cell_xy: the dict it returns and the cell after the call
scale_cell_xy(cell, x_scale, y_scale) ==
    LET scaled_bbox == scale_bbox_xy(cell.bbox, x_scale, y_scale)
    IN  [ret |-> [bbox |-> scaled_bbox.ret, row |-> cell.row, col |-> cell.col,
                  row_span |-> cell.row_span, col_span |-> cell.col_span,
                  is_header |-> cell.is_header,
                  text |-> truncate(cell.text, CellTextLimit)],
         src |-> [cell EXCEPT !.bbox = scaled_bbox.src]]

\* isinstance(item, TableItem)
IsTableItem(item) == "cells" \in DOMAIN item

\* isinstance(item, TableItem) and item.cells
HasCells(item) == IsTableItem(item) /\ item.cells # <<>>

\* OverlayRenderer._scale_item_xy: the dict it returns and the item after the call
scale_item_xy(item, x_scale, y_scale) ==
    LET scaled_bbox == scale_bbox_xy(item.bbox, x_scale, y_scale)
        item_dict == [id |-> item.id, type |-> item.type, label |-> item.label,
                      text |-> truncate(item.text, TextLimit),
                      bbox |-> scaled_bbox.ret, is_furniture |-> item.is_furniture]
        cells == [k \in 1..Len(item.cells) |-> scale_cell_xy(item.cells[k], x_scale, y_scale)]
    IN  IF HasCells(item)
        THEN [ret |-> [id |-> item_dict.id, type |-> item_dict.type,
                       label |-> item_dict.label, text |-> item_dict.text,
                       bbox |-> item_dict.bbox, is_furniture |-> item_dict.is_furniture,
                       cells |-> [k \in 1..Len(cells) |-> cells[k].ret],
                       num_rows |-> item.num_rows, num_cols |-> item.num_cols],
              src |-> [item EXCEPT !.bbox = scaled_bbox.src,
                                   !.cells = [k \in 1..Len(cells) |-> cells[k].src]]]
        ELSE [ret |-> item_dict, src |-> [item EXCEPT !.bbox = scaled_bbox.src]]

\* the stored list of a page after its selected items went through
\* _scale_item_xy: the selected items are the objects of the stored list
ItemsAfter(stored, items, scaled) ==
    [j \in 1..Len(stored) |->
        IF \E k \in 1..Len(items) : items[k] = stored[j]
        THEN scaled[CHOOSE k \in 1..Len(items) : items[k] = stored[j]].src
        ELSE stored[j]]

Factors_mut(page_image, page_data, scale) ==
    [exc |-> "none", x_scale |-> scale, y_scale |-> scale]

\* the scale factors of one page, lines 129-137
Factors(page_image, page_data, scale) ==
    IF page_image.k = "image"
    THEN IF FirstExc(<<div_exc(page_data.width), div_exc(page_data.height)>>) # "none"
         THEN [exc |-> "ZeroDivisionError", x_scale |-> scale, y_scale |-> scale]
         ELSE [exc |-> "none",
               x_scale |-> Frac(page_image.img.width_px, page_data.width),
               y_scale |-> Frac(page_image.img.height_px, page_data.height)]
    ELSE [exc |-> "none", x_scale |-> scale, y_scale |-> scale]

page_dict_mut(page_no, page_data, page_image, scale, scaled_items) ==
    [page_no |-> page_no,
     width |-> Times(page_data.width, scale),
     height |-> Times(page_data.height, scale),
     image |-> IF page_image.k = "image"
               THEN [k |-> "str", s |-> path(page_image.img)]
               ELSE [k |-> "null", s |-> <<>>],
     items |-> scaled_items]

\* the view of one page, lines 141-157
page_dict(page_no, page_data, page_image, scale, scaled_items) ==
    [page_no |-> page_no,
     width |-> IF page_image.k = "image" THEN Frac(page_image.img.width_px, 1)
               ELSE Times(page_data.width, scale),
     height |-> IF page_image.k = "image" THEN Frac(page_image.img.height_px, 1)
                ELSE Times(page_data.height, scale),
     image |-> IF page_image.k = "image"
               THEN [k |-> "str", s |-> path(page_image.img)]
               ELSE [k |-> "null", s |-> <<>>],
     items |-> scaled_items]

\* the loop of _prepare_pages_data over the sorted pages; st is
\* [exc, val, doc]: the exception that escaped, the views so far and the
\* Document after the calls made so far
RECURSIVE prepare_loop(_, _, _, _, _, _, _)
prepare_loop(pages, i, st, page_images, include_furniture, element_types, scale) ==
    IF i > Len(pages) \/ st.exc # "none" THEN st
    ELSE LET page_no == pages[i].page_no
             page_data == PageAt(st.doc.pages, page_no)
             items == get_page_items(st.doc, page_no, element_types, include_furniture)
             page_image == image_map_get(page_images, page_no)
             f == Factors(page_image, page_data, scale)
             scaled == [k \in 1..Len(items) |-> scale_item_xy(items[k], f.x_scale, f.y_scale)]
             scaled_items == [k \in 1..Len(items) |-> scaled[k].ret]
             after == [j \in 1..Len(st.doc.pages) |->
                          IF st.doc.pages[j].page_no = page_no
                          THEN [st.doc.pages[j] EXCEPT
                                   !.items = ItemsAfter(@, items, scaled)]
                          ELSE st.doc.pages[j]]
         IN  prepare_loop(pages, i + 1,
                 IF f.exc # "none" THEN [st EXCEPT !.exc = f.exc]
                 ELSE [exc |-> "none",
                       val |-> Append(st.val,
                                      page_dict(page_no, page_data, page_image, scale,
                                                scaled_items)),
                       doc |-> [st.doc EXCEPT !.pages = after]],
                 page_images, include_furniture, element_types, scale)

\* OverlayRenderer._prepare_pages_data
prepare_pages_data(d, page_images, include_furniture, element_types, scale) ==
    prepare_loop(sorted_pages(d.pages), 1, [exc |-> "none", val |-> <<>>, doc |-> d],
                 page_images, include_furniture, element_types, scale)

\* AssetRenderer.render_pdf_pages: what the rasterizer does is its outcome,
\* the images it made or the exception it raised (ImportError without
\* pypdfium2, the exception of a page worker from future.result())
render_pdf_pages(outcome) ==
    IF outcome.exc # "none" THEN [exc |-> outcome.exc, val |-> <<>>]
    ELSE [exc |-> "none", val |-> outcome.images]

\* OverlayRenderer.render: pdf is whether pdf_path is given and exists; the
\* call of render_pdf_pages is in no try block
render(d, pdf, outcome, include_furniture, element_types, scale) ==
    LET rendered == IF pdf THEN render_pdf_pages(outcome)
                    ELSE [exc |-> "none", val |-> <<>>]
    IN  IF rendered.exc # "none"
        THEN [exc |-> rendered.exc, val |-> <<>>, doc |-> d]
        ELSE prepare_pages_data(d, rendered.val, include_furniture, element_types, scale)

(***************************************************************************)
(* The adapter at work: a Document is parsed, then queried, prepared and   *)
(* rendered, each call on the Document the calls before it left            *)
(***************************************************************************)
MaxCalls == 2

\* texts longer than the limits of the adapter, each character its position
LongText == [i \in 1..(TextLimit + 3) |-> ToString(i)]
LongCellText == [i \in 1..(CellTextLimit + 3) |-> ToString(i)]
FullText == [i \in 1..TextLimit |-> ToString(i)]

CellLong ==
    CellRec(BBox(BoxBL), Num(0), Absent, Num(0), Absent, FALSE, TRUE, Str(LongCellText))

ReversedPages ==
    Pages("dict", <<PageEntry(StrKey(2), Size(Num(200), Num(100))),
                    PageEntry(StrKey(1), NoSize)>>)

ZeroPage == Pages("dict", <<PageEntry(StrKey(1), Size(Num(0), Num(0)))>>)

OverlayPages == {TwoPages, ReversedPages, ZeroPage, NoPages}

OverlayTexts ==
    {<<>>,
     <<TextRec(Str(T0), LabelText, Str(LongText), <<P1, P2>>)>>,
     <<TextRec(Str(T0), LabelText, Str(FullText), <<P2>>)>>,
     <<TextRec(Str(T0), LabelPageHeader, NoStr, <<P1>>),
       TextRec(Str(T1), LabelText, Str(<<"a">>), <<P1>>)>>}

OverlayTables ==
    {<<>>,
     <<TableRec(Str(Tb0), <<P1>>, TableData(NoGrid, NoGrid, Num(3), Num(2)))>>,
     <<TableRec(Str(Tb0), <<P2, P1>>,
                TableData(Grid(<<Cell(CellLong), Cell(CellBody)>>), NoGrid, Num(3), Num(2)))>>}

OverlayDocs ==
    {Data(pages, texts, tables, <<>>, NoFurniture) :
        pages \in OverlayPages, texts \in OverlayTexts, tables \in OverlayTables}
    \cup {Data(pages, <<TextRec(Str(T0), LabelText, Str(<<"a">>), <<P1, P2>>)>>, tables, <<>>,
               Furniture(<<RefDict(Str(T0))>>)) :
            pages \in OverlayPages, tables \in OverlayTables}

\* rendered images: twice page 1, page 2 stretched along x only, a page the
\* Documents do not have
Image1 == PageImage(1, <<"page_", "1", ".png">>, 1224, 1584)
Image2 == PageImage(2, <<"page_", "2", ".png">>, 300, 100)
Image3 == PageImage(3, <<"page_", "3", ".png">>, 10, 10)

Scales == {Frac(2, 1), Frac(3, 2)}

\* the page images and the flat multiplier of a call
PrepareInputs ==
    {<<<<>>, Frac(2, 1)>>, <<<<>>, Frac(3, 2)>>, <<<<Image1>>, Frac(3, 2)>>,
     <<<<Image2>>, Frac(2, 1)>>, <<<<Image1, Image2>>, Frac(3, 2)>>,
     <<<<Image3>>, Frac(2, 1)>>}

OverlayFilters == {NoTypes, Str(<<"table">>)}

\* what the rasterizer does with the source PDF
RasterOutcomes ==
    {[exc |-> "none", images |-> <<Image1>>],
     [exc |-> "ImportError", images |-> <<>>],
     [exc |-> "WorkerError", images |-> <<>>]}

InitOverlay == InitWith(OverlayDocs)

CallsMade == IF call = NoCall THEN 0 ELSE call.n

QueryPageItems ==
    /\ pc = "done"
    /\ CallsMade < MaxCalls
    /\ \E page_no \in {1, 2}, element_types \in OverlayFilters, include_furniture \in BOOLEAN :
          call' = [op |-> "get_page_items",
                   args |-> <<page_no, element_types, include_furniture>>,
                   exc |-> "none",
                   ret |-> get_page_items(doc, page_no, element_types, include_furniture),
                   n |-> CallsMade + 1]
    /\ UNCHANGED <<data, pc, exc, page_dimensions, doc, emitted>>

PreparePagesData ==
    /\ pc = "done"
    /\ CallsMade < MaxCalls
    /\ \E inp \in PrepareInputs, include_furniture \in BOOLEAN,
          element_types \in OverlayFilters :
          LET r == prepare_pages_data(doc, inp[1], include_furniture, element_types, inp[2])
          IN  /\ call' = [op |-> "prepare_pages_data",
                          args |-> <<inp[1], include_furniture, element_types, inp[2]>>,
                          exc |-> r.exc, ret |-> r.val, n |-> CallsMade + 1]
              /\ doc' = r.doc
    /\ UNCHANGED <<data, pc, exc, page_dimensions, emitted>>

Render ==
    /\ pc = "done"
    /\ CallsMade < MaxCalls
    /\ \E pdf \in BOOLEAN, outcome \in RasterOutcomes, scale \in Scales :
          LET r == render(doc, pdf, outcome, TRUE, NoTypes, scale)
          IN  /\ call' = [op |-> "render",
                          args |-> <<pdf, outcome, TRUE, NoTypes, scale>>,
                          exc |-> r.exc, ret |-> r.val, n |-> CallsMade + 1]
              /\ doc' = r.doc
    /\ UNCHANGED <<data, pc, exc, page_dimensions, emitted>>

NextOverlay ==
    \/ ExtractPageDimensions
    \/ CollectTexts
    \/ CollectTables
    \/ CollectPictures
    \/ CollectFurniture
    \/ QueryPageItems
    \/ PreparePagesData
    \/ Render

SpecOverlay == InitOverlay /\ [][NextOverlay]_vars

(***************************************************************************)
(* Calls of NormalizedBBox.is_valid, and of the uniform and the per-axis   *)
(* scaling of one rectangle and of one element built on it                 *)
(***************************************************************************)
MaxCoord == 2

Coords == (0 - MaxCoord)..MaxCoord

Rects == {NormalizedBBox(x, y, width, height) :
             x \in Coords, y \in Coords, width \in Coords, height \in Coords}

InitValid ==
    /\ Idle
    /\ \E bbox \in Rects :
          call = [op |-> "is_valid", bbox |-> bbox, st |-> "pending", ret |-> FALSE]

IsValid ==
    /\ call.op = "is_valid"
    /\ call.st = "pending"
    /\ call' = [call EXCEPT !.st = "returned", !.ret = is_valid(call.bbox)]
    /\ UNCHANGED <<data, pc, exc, page_dimensions, doc, emitted>>

NextValid == IsValid

SpecValid == InitValid /\ [][NextValid]_vars

scale_mut(bbox, factor) ==
    NormalizedBBox(Times(bbox.x, factor), Times(bbox.y, factor),
                   Times(bbox.width, factor), Times(bbox.width, factor))

\* NormalizedBBox.scale
scale(bbox, factor) ==
    NormalizedBBox(Times(bbox.x, factor), Times(bbox.y, factor),
                   Times(bbox.width, factor), Times(bbox.height, factor))

\* OverlayRenderer._scale_item: the dict it returns
scale_item(item, scale_factor) == scale_item_xy(item, scale_factor, scale_factor).ret

ScaleRects == {NormalizedBBox(x, y, width, height) :
                  x \in {0 - 1, 3}, y \in {0, 2},
                  width \in (0 - 1)..MaxCoord, height \in (0 - 1)..MaxCoord}

ScaleFactors == {Frac(0, 1), Frac(1, 1), Frac(2, 1), Frac(3, 2), Frac(0 - 1, 2)}

\* a text element on the rectangle, and a table whose cell has it too
ScaleItems(bbox) ==
    {DocumentItem(T0, "text", bbox, 1, <<"text">>, LongText, FALSE),
     TableItem(Tb0, bbox, 1, <<"table">>,
               <<TableCell(bbox, 0, 1, 1, 1, TRUE, LongCellText)>>, 3, 2)}

InitScale ==
    /\ Idle
    /\ \E bbox \in ScaleRects, factor \in ScaleFactors :
          \E item \in ScaleItems(bbox) :
              call = [op |-> "scaling", bbox |-> bbox, factor |-> factor,
                      item |-> item, results |-> EmptyDict]

\* one scaling call returns: its result is kept under its name
Returns(name, ret) ==
    /\ call.op = "scaling"
    /\ name \notin DOMAIN call.results
    /\ call' = [call EXCEPT !.results = (name :> ret) @@ @]
    /\ UNCHANGED <<data, pc, exc, page_dimensions, doc, emitted>>

Scale == Returns("scale", scale(call.bbox, call.factor))

ScaleBBoxXY ==
    Returns("scale_bbox_xy", scale_bbox_xy(call.bbox, call.factor, call.factor).ret)

ScaleItem == Returns("scale_item", scale_item(call.item, call.factor))

ScaleItemXY ==
    Returns("scale_item_xy", scale_item_xy(call.item, call.factor, call.factor).ret)

NextScale ==
    \/ Scale
    \/ ScaleBBoxXY
    \/ ScaleItem
    \/ ScaleItemXY

SpecScale == InitScale /\ [][NextScale]_vars

(***************************************************************************)
(* AssetRenderer.render_pdf_pages: one worker per page in a process pool,  *)
(* the caller collecting the results in the order of completion            *)
(***************************************************************************)
MaxPdfPages == 3

\* the sizes, in points, a page of the PDF may have
PointSizes == {<<612, 792>>, <<200, 100>>}

\* the scale the pages are rendered at
RenderScale == 2

\* _render_page_worker for the page of index page_index: what it returns
render_page_worker(pdf, page_index) ==
    LET page_no == page_index + 1
    IN  PageImage(page_no, <<"page_", ToString(page_no), ".png">>,
                  pdf[page_no][1] * RenderScale, pdf[page_no][2] * RenderScale)

\* the position the image goes to in a list sorted by page_no: behind the
\* entries that are not greater, as list.sort is stable
RECURSIVE insert_by_page_no(_, _)
insert_by_page_no(sorted, image) ==
    IF sorted = <<>> THEN <<image>>
    ELSE IF Head(sorted).page_no <= image.page_no
    THEN <<Head(sorted)>> \o insert_by_page_no(Tail(sorted), image)
    ELSE <<image>> \o sorted

sort_by_page_no_mut(images_info) == images_info

\* images_info.sort(key=lambda x: x.page_no)
RECURSIVE sort_by_page_no(_)
sort_by_page_no(images_info) ==
    IF images_info = <<>> THEN <<>>
    ELSE insert_by_page_no(sort_by_page_no(SubSeq(images_info, 1, Len(images_info) - 1)),
                           images_info[Len(images_info)])

\* the pool sizes max(1, int(cpu_count * 0.8)) the model runs with
PoolSizes == {1, 2}

\* a call: the PDF, the pages whose worker raises, the pool size, the state
\* of each submitted worker, the futures completed and not yet collected
\* (in order of completion) and the list the caller has built
InitRaster ==
    /\ Idle
    /\ \E n \in 0..MaxPdfPages :
          \E pdf \in [1..n -> PointSizes], failing \in SUBSET (1..n),
             max_workers \in PoolSizes :
              call = [op |-> "render_pdf_pages", pdf |-> pdf, failing |-> failing,
                      max_workers |-> max_workers,
                      worker |-> [i \in 1..n |-> "queued"],
                      completed |-> <<>>, images_info |-> <<>>,
                      st |-> "collecting", exc |-> "none", ret |-> <<>>]

Rasterizing == call.op = "render_pdf_pages"

PdfPages == DOMAIN call.worker

Count(status) == Cardinality({i \in PdfPages : call.worker[i] = status})

\* the pool starts the next submitted worker when a process is free
StartWorker ==
    /\ Rasterizing
    /\ Count("running") < call.max_workers
    /\ \E i \in PdfPages :
          /\ call.worker[i] = "queued"
          /\ \A j \in PdfPages : j < i => call.worker[j] # "queued"
          /\ call' = [call EXCEPT !.worker[i] = "running"]
    /\ UNCHANGED <<data, pc, exc, page_dimensions, doc, emitted>>

\* a running worker returns or raises: its future is completed
WorkerCompletes ==
    /\ Rasterizing
    /\ \E i \in PdfPages :
          /\ call.worker[i] = "running"
          /\ call' = [call EXCEPT !.worker[i] = "done", !.completed = Append(@, i)]
    /\ UNCHANGED <<data, pc, exc, page_dimensions, doc, emitted>>

\* one round of `for future in as_completed(futures)`: future.result()
\* re-raises the exception of the worker, else the image is appended
CollectResult ==
    /\ Rasterizing
    /\ call.st = "collecting"
    /\ call.completed # <<>>
    /\ LET i == Head(call.completed)
       IN  IF i \in call.failing
           THEN call' = [call EXCEPT !.completed = Tail(@), !.st = "raising",
                                     !.exc = "WorkerError"]
           ELSE call' = [call EXCEPT !.completed = Tail(@),
                                     !.images_info =
                                         Append(@, render_page_worker(call.pdf, i - 1))]
    /\ UNCHANGED <<data, pc, exc, page_dimensions, doc, emitted>>

\* the with block is left when the pool has shut down, every worker having
\* completed; after the loop the list is sorted and returned
SortAndReturn ==
    /\ Rasterizing
    /\ call.st = "collecting"
    /\ Len(call.images_info) = Cardinality(PdfPages)
    /\ call' = [call EXCEPT !.st = "returned", !.ret = sort_by_page_no(call.images_info)]
    /\ UNCHANGED <<data, pc, exc, page_dimensions, doc, emitted>>

\* an exception leaves the with block when the pool has shut down
RaiseWorkerError ==
    /\ Rasterizing
    /\ call.st = "raising"
    /\ \A i \in PdfPages : call.worker[i] = "done"
    /\ call' = [call EXCEPT !.st = "raised"]
    /\ UNCHANGED <<data, pc, exc, page_dimensions, doc, emitted>>

NextRaster ==
    \/ StartWorker
    \/ WorkerCompletes
    \/ CollectResult
    \/ SortAndReturn
    \/ RaiseWorkerError

SpecRaster == InitRaster /\ [][NextRaster]_vars

(***************************************************************************)
(* Properties                                                              *)
(***************************************************************************)
\* the elements the Document holds, in its index and in its page lists
Indexed == {doc.items_by_id[id] : id \in DOMAIN doc.items_by_id}

Listed == UNION {{doc.pages[i].items[j] : j \in 1..Len(doc.pages[i].items)} :
                    i \in 1..Len(doc.pages)}

Held == Indexed \cup Listed

ListedOnItsPage(e) ==
    \E i \in 1..Len(doc.pages) :
        /\ doc.pages[i].page_no = e.page_no
        /\ \E j \in 1..Len(doc.pages[i].items) : doc.pages[i].items[j] = e

\* the text, table and picture records of the input: <<prefix, collection, position>>
InputRecords ==
    {<<"text_", "texts", i>> : i \in 1..Len(data.texts)}
    \cup {<<"table_", "tables", i>> : i \in 1..Len(data.tables)}
    \cup {<<"picture_", "pictures", i>> : i \in 1..Len(data.pictures)}

RecItem(r) == data[r[2]][r[3]]

RecId(r) == item_id_of(RecItem(r), r[1], r[2], r[3])

\* the normalised rectangle of a provenance entry on the page it names
EntryBox(prov) ==
    normalize_bbox(prov.bbox.box, page_height_of(page_dimensions, prov_page_no(prov)))

\* a provenance entry with a non-empty bbox whose normalised rectangle has
\* positive width and height
Survives(prov) ==
    /\ prov.bbox.k = "dict"
    /\ prov.bbox.box # EmptyBox
    /\ EntryBox(prov).exc = "none"
    /\ EntryBox(prov).val.width > 0
    /\ EntryBox(prov).val.height > 0

\* the surviving entries, on page p, of the records whose identifier is id
SurvivingEntries(id, p) ==
    {<<r, j>> \in InputRecords \X (1..MaxProv + 1) :
        /\ RecId(r) = id
        /\ j <= Len(RecItem(r).prov)
        /\ prov_page_no(RecItem(r).prov[j]) = p
        /\ Survives(RecItem(r).prov[j])}

\* the elements the text, table and picture collectors constructed for id on p
Constructed(id, p) ==
    {k \in 1..Len(emitted) :
        emitted[k].id = id /\ emitted[k].page_no = p /\ ~emitted[k].is_furniture}

ListedFor(id, p) ==
    {j \in 1..Len(PageAt(doc.pages, p).items) :
        LET e == PageAt(doc.pages, p).items[j]
        IN  e.id = id /\ ~e.is_furniture}

PagesNamed == {1, 2, 3}

\* C1: parse raises no exception for any input whose collections hold records
\* of the expected shape, whatever the coordinate values, origin tags and page
\* keys inside them
C1_ParseNeverRaises == pc # "raised"

\* C2: a provenance entry of a text, table or picture record yields an element
\* exactly when it has a non-empty bbox normalising to positive width and
\* height; an identifier none of whose records has a surviving entry is in no
\* page list and is not a key of the index; every element held has positive
\* width and height
C2_ElementIffValidGeometry ==
    pc = "done" =>
        /\ \A r \in InputRecords, p \in PagesNamed :
              /\ Cardinality(Constructed(RecId(r), p))
                    = Cardinality(SurvivingEntries(RecId(r), p))
              /\ HasPage(doc.pages, p) =>
                    Cardinality(ListedFor(RecId(r), p))
                        = Cardinality(SurvivingEntries(RecId(r), p))
        /\ \A r \in InputRecords :
              (\A p \in PagesNamed : SurvivingEntries(RecId(r), p) = {}) =>
                  /\ RecId(r) \notin DOMAIN doc.items_by_id
                  /\ \A e \in Listed : e.id # RecId(r)
        /\ \A e \in Held : e.bbox.width > 0 /\ e.bbox.height > 0

\* a record with one entry that survives and one that does not, parsed
C2_Witness ==
    /\ pc = "done"
    /\ \E r \in InputRecords :
          /\ Len(RecItem(r).prov) = 2
          /\ \E j, k \in 1..2 :
                /\ Survives(RecItem(r).prov[j])
                /\ ~Survives(RecItem(r).prov[k])
                /\ RecItem(r).prov[k].bbox.k = "dict"
          /\ RecId(r) \in DOMAIN doc.items_by_id

\* the coordinates float() converts, and the numbers it makes of them
Numeric(v) == v.k \in {"absent", "num", "numstr"}

Number(v) == IF v.k = "absent" THEN 0 ELSE v.n

NumericBox(bbox) ==
    Numeric(bbox.l) /\ Numeric(bbox.t) /\ Numeric(bbox.r) /\ Numeric(bbox.b)

TaggedBottomLeft(bbox) ==
    bbox.coord_origin.k = "str" /\ bbox.coord_origin.s \in {"BOTTOMLEFT", "bottomleft"}

TaggedTopLeft(bbox) ==
    bbox.coord_origin.k = "str" /\ bbox.coord_origin.s \in {"TOPLEFT", "TopLeft"}

Untagged(bbox) == bbox.coord_origin.k = "absent"

\* C3: for a box tagged bottom-left, or not tagged, normalize_bbox returns
\* x = l, y = pageHeight - t, width = r - l, height = t - b, so that
\* y + height = pageHeight - b; an untagged box normalises as the same box
\* tagged BOTTOMLEFT does
C3_BottomLeftFlip ==
    call.op = "normalize_bbox" =>
        \A h \in DOMAIN call.results :
            LET bbox == call.bbox
                res == call.results[h]
            IN  (NumericBox(bbox) /\ (TaggedBottomLeft(bbox) \/ Untagged(bbox))) =>
                    /\ res.exc = "none"
                    /\ res.val.x = Number(bbox.l)
                    /\ res.val.y = h - Number(bbox.t)
                    /\ res.val.width = Number(bbox.r) - Number(bbox.l)
                    /\ res.val.height = Number(bbox.t) - Number(bbox.b)
                    /\ res.val.y + res.val.height = h - Number(bbox.b)
                    /\ Untagged(bbox) =>
                          res = normalize_bbox([bbox EXCEPT !.coord_origin = Tag(BOTTOMLEFT)], h)

\* an untagged box with a top edge off the axis, normalised for two heights
C3_Witness ==
    /\ call.op = "normalize_bbox"
    /\ Untagged(call.bbox)
    /\ NumericBox(call.bbox)
    /\ call.bbox.t = Num(30)
    /\ call.bbox.b = Num(10)
    /\ {100, 792} \subseteq DOMAIN call.results
    /\ call.results[792].val.y = 762
    /\ call.results[100].val.y = 70

\* C4: for a box tagged TOPLEFT, normalize_bbox returns x = l, y = t,
\* width = r - l, height = b - t, whatever the page height
C4_TopLeftPassthrough ==
    call.op = "normalize_bbox" =>
        \A h1, h2 \in DOMAIN call.results :
            LET bbox == call.bbox
                res == call.results[h1]
            IN  (NumericBox(bbox) /\ TaggedTopLeft(bbox)) =>
                    /\ res.exc = "none"
                    /\ res.val.x = Number(bbox.l)
                    /\ res.val.y = Number(bbox.t)
                    /\ res.val.width = Number(bbox.r) - Number(bbox.l)
                    /\ res.val.height = Number(bbox.b) - Number(bbox.t)
                    /\ res = call.results[h2]

\* a TOPLEFT box of positive extent, normalised for every page height
C4_Witness ==
    /\ call.op = "normalize_bbox"
    /\ call.bbox = RawBox(Num(10), Num(10), Num(30), Num(30), Tag(TOPLEFT))
    /\ DOMAIN call.results = PageHeights
    /\ call.results[50].val.height = 20

\* C5: every element of the index is in the item list of the page it names,
\* and every element of a page list is in the index, provenance entries that
\* name an undeclared page included
C5_IndexAndPagesAgree ==
    pc = "done" =>
        /\ \A e \in Indexed : ListedOnItsPage(e)
        /\ \A e \in Listed : e.id \in DOMAIN doc.items_by_id

\* the phases of parse() in which the Document exists
Built == {"texts", "tables", "pictures", "furniture", "done"}

\* the input declares no pages: the key is missing, or holds {} or []
DeclaresNoPages == data.pages.k = "absent" \/ data.pages.entries = <<>>

\* C6: a Document always has at least one page; when the input declares no
\* pages it has exactly one, numbered 1 and sized 612 x 792
C6_AtLeastOnePage ==
    pc \in Built =>
        /\ Len(doc.pages) >= 1
        /\ DeclaresNoPages =>
              /\ Len(doc.pages) = 1
              /\ doc.pages[1].page_no = 1
              /\ doc.pages[1].width = 612
              /\ doc.pages[1].height = 792

\* an input whose pages key holds an empty dict, parsed into a Document whose
\* one page lists an element
C6_Witness ==
    /\ pc = "done"
    /\ data.pages.k = "dict"
    /\ data.pages.entries = <<>>
    /\ Len(doc.pages) = 1
    /\ doc.pages[1].items # <<>>

\* the rules of the classifier in their order of precedence
RuleCategory == <<"heading", "table", "picture", "list", "furniture">>

RuleKeywords ==
    <<{"section", "heading", "title"}, {"table"}, {"picture", "figure", "image"},
      {"list"}, {"header", "footer", "page_number"}>>

LabelHas(item, kws) ==
    item.label.k = "str"
        /\ \E i \in 1..Len(item.label.s) : lower_atom(item.label.s[i]) \in kws

RuleHolds(item, n) ==
    \/ LabelHas(item, RuleKeywords[n])
    \/ n = 2 /\ item.type.k = "str" /\ item.type.s \in {<<"table">>, <<"Table">>}

FirstRule(item) ==
    IF \E n \in 1..5 : RuleHolds(item, n)
    THEN RuleCategory[CHOOSE n \in 1..5 :
                          RuleHolds(item, n) /\ \A m \in 1..(n - 1) : ~RuleHolds(item, m)]
    ELSE "text"

\* C7: the category is that of the first rule, in the order heading, table,
\* picture, list, furniture, that the label or type satisfies, and text when
\* none does; it is always one of the six categories; section_header is a
\* heading, and so is a label holding both title and table
C7_ClassificationPrecedence ==
    (call.op = "classify_item_type" /\ call.st = "returned") =>
        /\ call.ret = FirstRule(call.item)
        /\ call.ret \in {"text", "heading", "table", "picture", "list", "furniture"}
        /\ LabelHas(call.item, {"section"}) /\ LabelHas(call.item, {"header"})
              => call.ret = "heading"
        /\ LabelHas(call.item, {"title"}) /\ LabelHas(call.item, {"table"})
              => call.ret = "heading"

\* a label that satisfies the heading rule and the furniture rule, classified
C7_Witness ==
    /\ call.op = "classify_item_type"
    /\ call.st = "returned"
    /\ call.item.label = Str(<<"section", "header">>)
    /\ call.ret = "heading"

\* the text records a child reference of the furniture container matches
MatchedTexts ==
    {i \in 1..Len(data.texts) :
        /\ data.furniture.k = "dict"
        /\ data.furniture.children.k = "list"
        /\ \E c \in 1..Len(data.furniture.children.items) :
              Matches(ref_of(data.furniture.children.items[c]), data.texts[i])}

FurnitureElementFor(prov) ==
    \E k \in 1..Len(emitted) :
        /\ emitted[k].is_furniture
        /\ emitted[k].type = "furniture"
        /\ emitted[k].page_no = prov_page_no(prov)
        /\ emitted[k].bbox = EntryBox(prov).val
        /\ emitted[k].id \in DOMAIN doc.items_by_id
        /\ HasPage(doc.pages, prov_page_no(prov)) => ListedOnItsPage(emitted[k])

\* C8: for each surviving occurrence of a text record matched by a furniture
\* child reference the parser emits, on that occurrence's page, an element
\* with is_furniture = true and category furniture; every element with
\* is_furniture = true has category furniture
C8_FurnitureElements ==
    pc = "done" =>
        /\ \A i \in MatchedTexts : \A j \in 1..Len(data.texts[i].prov) :
              Survives(data.texts[i].prov[j]) => FurnitureElementFor(data.texts[i].prov[j])
        /\ \A e \in Held : e.is_furniture => e.type = "furniture"
        /\ \A k \in 1..Len(emitted) : emitted[k].is_furniture => emitted[k].type = "furniture"

\* a matched text record whose label is not a furniture label, with a
\* surviving occurrence, parsed
C8_Witness ==
    /\ pc = "done"
    /\ \E i \in MatchedTexts :
          /\ data.texts[i].label = LabelText
          /\ \E j \in 1..Len(data.texts[i].prov) : Survives(data.texts[i].prov[j])
    /\ \E e \in Listed : e.is_furniture

\* the elements a query of get_page_items asks for
Wanted(e) ==
    /\ \/ call.element_types.k = "null"
       \/ call.element_types.s = <<>>
       \/ \E i \in 1..Len(call.element_types.s) : call.element_types.s[i] = e.type
    /\ call.include_furniture \/ ~e.is_furniture

\* sub is items with some positions left out
RECURSIVE IsSubsequence(_, _)
IsSubsequence(sub, items) ==
    IF sub = <<>> THEN TRUE
    ELSE IF items = <<>> THEN FALSE
    ELSE IF Head(sub) = Head(items) THEN IsSubsequence(Tail(sub), Tail(items))
    ELSE IsSubsequence(sub, Tail(items))

\* C9: get_page_items returns exactly the elements of the page whose category
\* is in the type filter (no filter or an empty one admits all) and, when
\* includeFurniture is false, whose is_furniture is false, in stored order;
\* for a page the Document does not have it returns the empty list
C9_GetPageItemsFilters ==
    call.op = "get_page_items" =>
        IF ~HasPage(doc.pages, call.page_no) THEN call.ret = <<>>
        ELSE LET items == PageAt(doc.pages, call.page_no).items
             IN  /\ \A i \in 1..Len(call.ret) : Wanted(call.ret[i])
                 /\ IsSubsequence(call.ret, items)
                 /\ Len(call.ret) = Cardinality({i \in 1..Len(items) : Wanted(items[i])})

\* a query without furniture on a page that lists a furniture element, which
\* returns some of the page's elements and leaves some out
C9_Witness ==
    /\ call.op = "get_page_items"
    /\ ~call.include_furniture
    /\ HasPage(doc.pages, call.page_no)
    /\ \E j \in 1..Len(PageAt(doc.pages, call.page_no).items) :
          PageAt(doc.pages, call.page_no).items[j].is_furniture
    /\ call.ret # <<>>
    /\ Len(call.ret) < Len(PageAt(doc.pages, call.page_no).items)

\* C10: every element whose category is furniture has is_furniture = true, so
\* a query with includeFurniture = false returns no element of category
\* furniture
C10_FurnitureCategoryFlagged ==
    \A e \in Held : e.type = "furniture" => e.is_furniture

\* a call of the adapter's prepare step that returned, and its arguments
Prepared == call.op = "prepare_pages_data" /\ call.exc = "none"

PreparedImages == call.args[1]
PreparedFurniture == call.args[2]
PreparedTypes == call.args[3]
PreparedScale == call.args[4]

\* the elements of page p the call selected
SelectedOn(p) == get_page_items(doc, p, PreparedTypes, PreparedFurniture)

HasImage(p) == \E i \in 1..Len(PreparedImages) : PreparedImages[i].page_no = p

ImageOf(p) ==
    PreparedImages[CHOOSE i \in 1..Len(PreparedImages) : PreparedImages[i].page_no = p]

\* out = a * num / den
IsScaled(out, a, num, den) == den # 0 /\ out.d # 0 /\ out.n * den = out.d * a * num

\* the rectangle out is the rectangle bbox with x and width times xn / xd and
\* y and height times yn / yd
ScaledRect(out, bbox, xn, xd, yn, yd) ==
    /\ IsScaled(out.x, bbox.x, xn, xd)
    /\ IsScaled(out.y, bbox.y, yn, yd)
    /\ IsScaled(out.width, bbox.width, xn, xd)
    /\ IsScaled(out.height, bbox.height, yn, yd)

\* the rectangle out is bbox scaled with the factors of page p
ScaledForPage(out, bbox, p) ==
    IF HasImage(p)
    THEN ScaledRect(out, bbox, ImageOf(p).width_px, PageAt(doc.pages, p).width,
                    ImageOf(p).height_px, PageAt(doc.pages, p).height)
    ELSE ScaledRect(out, bbox, PreparedScale.n, PreparedScale.d,
                    PreparedScale.n, PreparedScale.d)

\* C11: every output item's bbox is the element's stored rectangle with x and
\* width times xf and y and height times yf, where xf and yf are the image's
\* pixel size over the declared page size when the page has a rendered image
\* and the flat multiplier otherwise, page by page; the cells of a table are
\* scaled with the factors of the table
C11_PerPageScaleFactors ==
    Prepared =>
        \A v \in 1..Len(call.ret) :
            LET view == call.ret[v]
                sel == SelectedOn(view.page_no)
            IN  /\ Len(view.items) = Len(sel)
                /\ \A k \in 1..Len(sel) :
                      /\ ScaledForPage(view.items[k].bbox, sel[k].bbox, view.page_no)
                      /\ "cells" \in DOMAIN view.items[k] =>
                            /\ Len(view.items[k].cells) = Len(sel[k].cells)
                            /\ \A c \in 1..Len(sel[k].cells) :
                                  ScaledForPage(view.items[k].cells[c].bbox,
                                                sel[k].cells[c].bbox, view.page_no)

\* a call with an image for page 2 only, stretched along x, on a Document
\* whose two pages both show a table with cells
C11_Witness ==
    /\ Prepared
    /\ PreparedImages = <<Image2>>
    /\ Len(call.ret) = 2
    /\ \A v \in 1..2 :
          \E k \in 1..Len(call.ret[v].items) :
              /\ "cells" \in DOMAIN call.ret[v].items[k]
              /\ call.ret[v].items[k].cells # <<>>
    /\ \E k \in 1..Len(call.ret[2].items) :
          call.ret[2].items[k].bbox.width # call.ret[1].items[k].bbox.width

\* the fraction out is the whole number a
IsWhole(out, a) == out.d # 0 /\ out.n = a * out.d

C13_OneViewPerPageAscending ==
    Prepared =>
        /\ Len(call.ret) = Len(doc.pages)
        /\ \A p \in 1..Len(doc.pages) :
              \E v \in 1..Len(call.ret) : call.ret[v].page_no = doc.pages[p].page_no
        /\ \A v \in 1..Len(call.ret) : HasPage(doc.pages, call.ret[v].page_no)
        /\ \A v, w \in 1..Len(call.ret) :
              v < w => call.ret[v].page_no < call.ret[w].page_no
        /\ \A v \in 1..Len(call.ret) :
              LET view == call.ret[v]
                  sel == SelectedOn(view.page_no)
              IN  /\ Len(view.items) = Len(sel)
                  /\ \A k \in 1..Len(sel) :
                        /\ view.items[k].id = sel[k].id
                        /\ view.items[k].type = sel[k].type
                        /\ view.items[k].label = sel[k].label
                        /\ view.items[k].is_furniture = sel[k].is_furniture

\* pages declared as 2 then 1, an image for page 2 only, and elements on both
\* pages: the views are those of page 1 then page 2
C13_Witness ==
    /\ Prepared
    /\ Len(doc.pages) = 2
    /\ doc.pages[1].page_no = 2
    /\ doc.pages[2].page_no = 1
    /\ PreparedImages = <<Image2>>
    /\ call.ret[1].page_no = 1
    /\ call.ret[2].page_no = 2
    /\ call.ret[1].items # <<>>
    /\ call.ret[2].items # <<>>

\* an image for page 3, which the Document does not have: no view of page 3
C13_WitnessStrayImage ==
    /\ Prepared
    /\ PreparedImages = <<Image3>>
    /\ Len(call.ret) = 2

\* C14: every output item made from a table element carries a cells list with
\* one scaled cell per owned cell, in the same order, and the table's
\* num_rows and num_cols, also when the table owns no cells
C14_TableItemsCarryCells ==
    Prepared =>
        \A v \in 1..Len(call.ret) :
            LET view == call.ret[v]
                sel == SelectedOn(view.page_no)
            IN  \A k \in 1..Len(sel) :
                    IsTableItem(sel[k]) =>
                        /\ k <= Len(view.items)
                        /\ "cells" \in DOMAIN view.items[k]
                        /\ "num_rows" \in DOMAIN view.items[k]
                        /\ "num_cols" \in DOMAIN view.items[k]
                        /\ Len(view.items[k].cells) = Len(sel[k].cells)
                        /\ \A c \in 1..Len(sel[k].cells) :
                              /\ view.items[k].cells[c].row = sel[k].cells[c].row
                              /\ view.items[k].cells[c].col = sel[k].cells[c].col
                        /\ view.items[k].num_rows = sel[k].num_rows
                        /\ view.items[k].num_cols = sel[k].num_cols

\* the part of C14 the code keeps: a table that owns cells
C14_TablesWithCellsCarryThem ==
    Prepared =>
        \A v \in 1..Len(call.ret) :
            LET view == call.ret[v]
                sel == SelectedOn(view.page_no)
            IN  \A k \in 1..Len(sel) :
                    HasCells(sel[k]) =>
                        /\ k <= Len(view.items)
                        /\ "cells" \in DOMAIN view.items[k]
                        /\ Len(view.items[k].cells) = Len(sel[k].cells)
                        /\ view.items[k].num_rows = sel[k].num_rows
                        /\ view.items[k].num_cols = sel[k].num_cols

\* a call of render whose rasterization of the source PDF failed
RasterFailed ==
    /\ call.op = "render"
    /\ call.args[1]
    /\ call.args[2].exc # "none"

\* C15: when the rasterization fails for the whole document the render still
\* completes: no error reaches the caller, the adapter runs with no page
\* images, every page has image = null and is scaled with the flat multiplier
C15_RasterFailureDegrades ==
    RasterFailed =>
        /\ call.exc = "none"
        /\ Len(call.ret) = Len(doc.pages)
        /\ \A v \in 1..Len(call.ret) :
              LET view == call.ret[v]
                  page == PageAt(doc.pages, view.page_no)
              IN  /\ view.image.k = "null"
                  /\ IsScaled(view.width, page.width, call.args[5].n, call.args[5].d)
                  /\ IsScaled(view.height, page.height, call.args[5].n, call.args[5].d)

\* what the code does instead: the exception of the rasterizer is the
\* exception of render, and no view is made
C15_RasterFailureEscapes ==
    RasterFailed => call.exc = call.args[2].exc /\ call.ret = <<>>

\* a render without a source PDF runs with no page images: flat multiplier,
\* image = null on every page
C15_NoPdfRendersFlat ==
    (call.op = "render" /\ ~call.args[1]) =>
        /\ call.exc = "none"
        /\ \A v \in 1..Len(call.ret) : call.ret[v].image.k = "null"

\* out is the first limit characters of text, all of it when it has no more
FirstChars(out, text, limit) ==
    /\ Len(out) = IF Len(text) <= limit THEN Len(text) ELSE limit
    /\ \A i \in 1..Len(out) : out[i] = text[i]

\* the cell texts of an element, none for an element that is no table
CellTexts(item) ==
    IF IsTableItem(item) THEN [c \in 1..Len(item.cells) |-> item.cells[c].text] ELSE <<>>

\* every stored element has the text and the cell texts it was built with
StoredTextsAsBuilt ==
    \A p \in 1..Len(doc.pages) :
        \A j \in 1..Len(doc.pages[p].items) :
            \E e \in 1..Len(emitted) :
                /\ emitted[e].id = doc.pages[p].items[j].id
                /\ emitted[e].page_no = doc.pages[p].items[j].page_no
                /\ emitted[e].text = doc.pages[p].items[j].text
                /\ CellTexts(emitted[e]) = CellTexts(doc.pages[p].items[j])

\* C16: an output item's text is the first 200 characters of the element's
\* text, a cell's text the first 100 characters of the cell's text, so a
\* longer text comes out with exactly 200, respectively 100, characters; the
\* stored element and cell texts keep their length
C16_TextTruncation ==
    Prepared =>
        /\ StoredTextsAsBuilt
        /\ \A v \in 1..Len(call.ret) :
              LET view == call.ret[v]
                  sel == SelectedOn(view.page_no)
              IN  /\ Len(view.items) = Len(sel)
                  /\ \A k \in 1..Len(sel) :
                        /\ FirstChars(view.items[k].text, sel[k].text, 200)
                        /\ Len(sel[k].text) > 200 => Len(view.items[k].text) = 200
                        /\ "cells" \in DOMAIN view.items[k] =>
                              \A c \in 1..Len(view.items[k].cells) :
                                  /\ FirstChars(view.items[k].cells[c].text,
                                                sel[k].cells[c].text, 100)
                                  /\ Len(sel[k].cells[c].text) > 100 =>
                                        Len(view.items[k].cells[c].text) = 100

\* a view with an item cut from 203 to 200 characters and a view with a cell
\* cut from 103 to 100, the stored texts still 203 and 103 long
C16_Witness ==
    /\ Prepared
    /\ \E v \in 1..Len(call.ret) :
          \E k \in 1..Len(call.ret[v].items) :
              /\ Len(call.ret[v].items[k].text) = 200
              /\ Len(SelectedOn(call.ret[v].page_no)[k].text) = 203
    /\ \E v \in 1..Len(call.ret) :
          \E k \in 1..Len(call.ret[v].items) :
              /\ "cells" \in DOMAIN call.ret[v].items[k]
              /\ \E c \in 1..Len(call.ret[v].items[k].cells) :
                    /\ Len(call.ret[v].items[k].cells[c].text) = 100
                    /\ Len(SelectedOn(call.ret[v].page_no)[k].cells[c].text) = 103

\* a text of exactly 200 characters comes out whole
C16_WitnessAtLimit ==
    /\ Prepared
    /\ \E v \in 1..Len(call.ret) :
          \E k \in 1..Len(call.ret[v].items) :
              /\ Len(call.ret[v].items[k].text) = 200
              /\ call.ret[v].items[k].text = SelectedOn(call.ret[v].page_no)[k].text

\* the calls C17 is about
ReadOnlyOps == {"get_page_items", "prepare_pages_data"}

\* C17: get_page_items and _prepare_pages_data, called any number of times
\* with any filters, page images and scale, leave the Document as it was
\* (pages, item lists and their order, element and cell geometry, identifier
\* index), and a call repeated with the same arguments has the same result
C17_CallsLeaveDocumentUnchanged ==
    [][(pc = "done" /\ call' # call /\ call'.op \in ReadOnlyOps) =>
          /\ doc' = doc
          /\ (call # NoCall /\ call.op = call'.op /\ call.args = call'.args) =>
                (call'.ret = call.ret /\ call'.exc = call.exc)]_vars

\* the second call of the prepare step on a Document with a table with cells
\* on an imaged page: rectangles of elements and cells were scaled twice
C17_Witness ==
    /\ Prepared
    /\ call.n = 2
    /\ PreparedImages = <<Image2>>
    /\ \E v \in 1..Len(call.ret) :
          \E k \in 1..Len(call.ret[v].items) :
              /\ "cells" \in DOMAIN call.ret[v].items[k]
              /\ call.ret[v].items[k].cells # <<>>
              /\ call.ret[v].items[k].bbox.width.n # 0

\* the page a provenance entry names: its page_no field, else its page
\* field, else 1
NamedPage(prov) ==
    IF prov.page_no.k # "absent" THEN prov.page_no.n
    ELSE IF prov.page.k # "absent" THEN prov.page.n
    ELSE 1

\* the identifiers under which record r gives elements: its own, and for a
\* text record the one the furniture collector uses
IdsOf(r) ==
    {RecId(r)} \cup
    (IF r[2] = "texts" THEN {item_id_of(RecItem(r), "furniture_", "texts", r[3])} ELSE {})

\* the pages named by the entries of the records that give elements under id
PagesOfId(id) ==
    {NamedPage(RecItem(r).prov[q]) :
        <<r, q>> \in {<<s, j>> \in InputRecords \X (1..MaxProv + 1) :
                         id \in IdsOf(s) /\ j <= Len(RecItem(s).prov)}}

\* C18: every element in the item list of page P has page_no = P and comes
\* from a record one of whose provenance entries names P (page_no field, else
\* page field, else 1), so elements of records naming different pages never
\* share a list; a record occurring on several pages yields an element for
\* each of its occurrences, listed on the page of the occurrence
C18_PageListsFollowProvenance ==
    pc = "done" =>
        /\ \A i \in 1..Len(doc.pages) : \A j \in 1..Len(doc.pages[i].items) :
              LET e == doc.pages[i].items[j]
              IN  /\ e.page_no = doc.pages[i].page_no
                  /\ doc.pages[i].page_no \in PagesOfId(e.id)
                  /\ \A k \in 1..Len(doc.pages[i].items) :
                        PagesOfId(e.id) \cap PagesOfId(doc.pages[i].items[k].id) # {}
        /\ \A r \in InputRecords : \A q \in 1..Len(RecItem(r).prov) :
              Survives(RecItem(r).prov[q]) =>
                  \E k \in 1..Len(emitted) :
                      /\ emitted[k].id = RecId(r)
                      /\ emitted[k].page_no = NamedPage(RecItem(r).prov[q])
                      /\ emitted[k].bbox = EntryBox(RecItem(r).prov[q]).val
                      /\ HasPage(doc.pages, emitted[k].page_no) =>
                            ListedOnItsPage(emitted[k])

\* a record with surviving occurrences on pages 1 and 2, listed on both, one
\* of them named by the page field or by page_no ahead of a differing page
C18_Witness ==
    /\ pc = "done"
    /\ \E r \in InputRecords :
          /\ Len(RecItem(r).prov) = 2
          /\ {NamedPage(RecItem(r).prov[q]) : q \in 1..2} = {1, 2}
          /\ \A q \in 1..2 :
                /\ Survives(RecItem(r).prov[q])
                /\ HasPage(doc.pages, NamedPage(RecItem(r).prov[q]))
                /\ \E j \in 1..Len(PageAt(doc.pages, NamedPage(RecItem(r).prov[q])).items) :
                      PageAt(doc.pages, NamedPage(RecItem(r).prov[q])).items[j].id = RecId(r)
          /\ \E q \in 1..2 : RecItem(r).prov[q].page_no.k = "absent"

\* an entry with page_no 1 and page 2 gives an element listed on page 1
C18_WitnessPrecedence ==
    /\ pc = "done"
    /\ \E r \in InputRecords :
          /\ Len(RecItem(r).prov) = 1
          /\ RecItem(r).prov[1].page_no = Num(1)
          /\ RecItem(r).prov[1].page = Num(2)
          /\ HasPage(doc.pages, 2)
          /\ \E j \in 1..Len(PageAt(doc.pages, 1).items) :
                PageAt(doc.pages, 1).items[j].id = RecId(r)

\* C19: the prepare step raises no error for any Document and any page
\* images, and returns a view for every page: with zero elements, with zero
\* page images, and for every declared page size, a width or height of 0
\* included
C19_PrepareNeverRaises ==
    call.op = "prepare_pages_data" =>
        /\ call.exc = "none"
        /\ Len(call.ret) = Len(doc.pages)

\* the part of C19 the code keeps: a call with no image for a page of
\* width or height 0 returns a view for every page
C19_PrepareReturnsWithoutZeroDivision ==
    (/\ call.op = "prepare_pages_data"
     /\ \A p \in 1..Len(doc.pages) :
           HasImage(doc.pages[p].page_no) =>
               doc.pages[p].width # 0 /\ doc.pages[p].height # 0) =>
        /\ call.exc = "none"
        /\ Len(call.ret) = Len(doc.pages)

\* a source cell the cell loop keeps: one with a non-empty bbox
KeptCell(cell_data) == Get(cell_data.bbox, BBox(EmptyBox)).box # EmptyBox

\* the source cells of a table record that become cells, in the order read
SourceCells(item) ==
    LET table_data == Get(item.data, NoTableData)
        grid == Get(table_data.grid, Get(table_data.table_cells, Grid(<<>>))).entries
    IN  SelectSeq(cells_to_process(grid), KeptCell)

\* the count a table record declares under a key, 0 when it declares none
Declared(item, key) ==
    IF item.data.k = "absent" \/ item.data[key].k = "absent" THEN 0 ELSE item.data[key].n

\* the table element e is what the table record item gives: the declared
\* counts, and a cell per kept source cell with its header flag
BuiltFrom(e, item) ==
    /\ e.num_rows = Declared(item, "num_rows")
    /\ e.num_cols = Declared(item, "num_cols")
    /\ Len(e.cells) = Len(SourceCells(item))
    /\ \A c \in 1..Len(e.cells) :
          e.cells[c].is_header
              <=> (SourceCells(item)[c].column_header \/ SourceCells(item)[c].row_header)

\* C20: a table element's num_rows and num_cols are the counts the source
\* declares, 0 when absent, whatever the number of parsed cells, so a table
\* with fewer cells than num_rows x num_cols is built without error; each
\* parsed cell is flagged header exactly when the source marks it
\* column_header or row_header
C20_TableCountsAndHeaderFlags ==
    pc = "done" =>
        /\ \A k \in 1..Len(emitted) :
              IsTableItem(emitted[k]) =>
                  \E i \in 1..Len(data.tables) :
                      /\ RecId(<<"table_", "tables", i>>) = emitted[k].id
                      /\ BuiltFrom(emitted[k], data.tables[i])
        /\ \A i \in 1..Len(data.tables) : \A q \in 1..Len(data.tables[i].prov) :
              Survives(data.tables[i].prov[q]) =>
                  \E k \in 1..Len(emitted) :
                      /\ IsTableItem(emitted[k])
                      /\ emitted[k].id = RecId(<<"table_", "tables", i>>)
                      /\ emitted[k].page_no = NamedPage(data.tables[i].prov[q])
                      /\ BuiltFrom(emitted[k], data.tables[i])

\* a table declared 3 x 2 built with two cells, one of them a header, and a
\* table declaring no counts built with cells and the counts 0
C20_Witness ==
    /\ pc = "done"
    /\ \E k \in 1..Len(emitted) :
          /\ IsTableItem(emitted[k])
          /\ emitted[k].num_rows = 3
          /\ emitted[k].num_cols = 2
          /\ Len(emitted[k].cells) = 2
          /\ emitted[k].cells[1].is_header
          /\ ~emitted[k].cells[2].is_header

\* a table declaring no num_rows: the count is 0 though it has cells, one of
\* them flagged by row_header alone
C20_WitnessAbsentCounts ==
    /\ pc = "done"
    /\ \E k \in 1..Len(emitted) :
          /\ IsTableItem(emitted[k])
          /\ emitted[k].num_rows = 0
          /\ emitted[k].cells # <<>>
    /\ \E k \in 1..Len(emitted) :
          /\ IsTableItem(emitted[k])
          /\ \E i \in 1..Len(data.tables) :
                \E c \in 1..Len(SourceCells(data.tables[i])) :
                    /\ Len(emitted[k].cells) >= c
                    /\ emitted[k].cells[c].is_header
                    /\ ~SourceCells(data.tables[i])[c].column_header
                    /\ SourceCells(data.tables[i])[c].row_header

\* C21: is_valid(r) is true exactly when r.width > 0 and r.height > 0, for
\* zero and negative widths and heights too, whatever x and y are
C21_IsValidIffPositive ==
    (call.op = "is_valid" /\ call.st = "returned") =>
        (call.ret <=> (call.bbox.width > 0 /\ call.bbox.height > 0))

\* a rectangle of width 0 and positive height at negative x and y: not valid
C21_Witness ==
    /\ call.op = "is_valid"
    /\ call.st = "returned"
    /\ call.bbox.width = 0
    /\ call.bbox.height > 0
    /\ call.bbox.x < 0
    /\ call.bbox.y < 0
    /\ ~call.ret

\* a rectangle of positive width and height is valid at every x and y
C21_WitnessValid ==
    /\ call.op = "is_valid"
    /\ call.st = "returned"
    /\ call.bbox.x < 0
    /\ call.bbox.y > 0
    /\ call.ret

\* both calls of a pair have returned
BothReturned(a, b) == call.op = "scaling" /\ {a, b} \subseteq DOMAIN call.results

\* C22: the uniform scaling of a rectangle by k has the x, y, width and
\* height of its per-axis scaling by k and k, and the uniform scaling of an
\* element gives the output item of its per-axis scaling by k and k
C22_UniformIsPerAxisAtEqualFactors ==
    /\ BothReturned("scale", "scale_bbox_xy") =>
          /\ call.results["scale"].x = call.results["scale_bbox_xy"].x
          /\ call.results["scale"].y = call.results["scale_bbox_xy"].y
          /\ call.results["scale"].width = call.results["scale_bbox_xy"].width
          /\ call.results["scale"].height = call.results["scale_bbox_xy"].height
    /\ BothReturned("scale_item", "scale_item_xy") =>
          call.results["scale_item"] = call.results["scale_item_xy"]

\* all four calls returned for a rectangle whose width and height differ,
\* scaled by 3/2, under a table with a cell
C22_Witness ==
    /\ BothReturned("scale", "scale_bbox_xy")
    /\ BothReturned("scale_item", "scale_item_xy")
    /\ call.factor = Frac(3, 2)
    /\ call.bbox.width = 1
    /\ call.bbox.height = 2
    /\ call.results["scale"].height = Frac(3, 1)
    /\ "cells" \in DOMAIN call.results["scale_item"]

\* the references of the furniture container
ChildRefs ==
    IF data.furniture.k = "dict" /\ data.furniture.children.k = "list"
    THEN {ref_of(data.furniture.children.items[c]) :
             c \in 1..Len(data.furniture.children.items)}
    ELSE {}

\* the identifier the furniture collector gives the elements of text record i
FurnitureId(i) == item_id_of(data.texts[i], "furniture_", "texts", i)

\* text record i carries a self-reference identifier which some reference of
\* the furniture container equals or ends with
Referenced(i) ==
    /\ data.texts[i].self_ref.k # "absent"
    /\ \E ref \in ChildRefs :
          \/ ref = data.texts[i].self_ref.s
          \/ endswith(ref, data.texts[i].self_ref.s)

\* C23: the furniture collector emits an element for a text record only if
\* some furniture child reference equals the record's self-reference
\* identifier or ends with it; a record without a self-reference identifier
\* is matched by no reference and is never emitted as furniture
C23_FurnitureOnlyForReferencedTexts ==
    pc = "done" =>
        \A k \in 1..Len(emitted) :
            emitted[k].is_furniture =>
                \E i \in 1..Len(data.texts) :
                    FurnitureId(i) = emitted[k].id /\ Referenced(i)

\* the part of C23 the code keeps: a furniture element under the identifier
\* of records that all carry a self-reference comes from a referenced record
C23_SelfReferencedTextsNeedAMatch ==
    pc = "done" =>
        \A k \in 1..Len(emitted) :
            (/\ emitted[k].is_furniture
             /\ \A i \in 1..Len(data.texts) :
                   FurnitureId(i) = emitted[k].id => data.texts[i].self_ref.k # "absent") =>
                \E i \in 1..Len(data.texts) :
                    FurnitureId(i) = emitted[k].id /\ Referenced(i)

\* the source records have pairwise distinct identifiers
DistinctIdentifiers ==
    \A r, s \in InputRecords : r # s => RecId(r) # RecId(s)

\* no record has two provenance entries naming the same page
OneEntryPerPage ==
    \A r \in InputRecords :
        \A p, q \in 1..Len(RecItem(r).prov) :
            p # q => NamedPage(RecItem(r).prov[p]) # NamedPage(RecItem(r).prov[q])

\* C24: when the source records have pairwise distinct identifiers and no
\* record has two provenance entries on one page, no page's item list holds
\* two elements with the same identifier; a text record the furniture
\* container references is on its page once, as the furniture element
C24_IdentifiersUniqueWithinPage ==
    (pc = "done" /\ DistinctIdentifiers /\ OneEntryPerPage) =>
        \A i \in 1..Len(doc.pages) :
            \A j, k \in 1..Len(doc.pages[i].items) :
                j # k => doc.pages[i].items[j].id # doc.pages[i].items[k].id

\* the part of C24 the code keeps: the elements of the text, table and
\* picture collectors have distinct identifiers within a page
C24_CollectedIdentifiersUniqueWithinPage ==
    (pc = "done" /\ DistinctIdentifiers /\ OneEntryPerPage) =>
        \A i \in 1..Len(doc.pages) :
            \A j, k \in 1..Len(doc.pages[i].items) :
                (/\ j # k
                 /\ ~doc.pages[i].items[j].is_furniture
                 /\ ~doc.pages[i].items[k].is_furniture) =>
                    doc.pages[i].items[j].id # doc.pages[i].items[k].id

\* the provenance entries whose box fails to normalise: <<record, position>>
FailingEntries ==
    {<<r, q>> \in InputRecords \X (1..MaxProv + 1) :
        /\ q <= Len(RecItem(r).prov)
        /\ RecItem(r).prov[q].bbox.k = "dict"
        /\ RecItem(r).prov[q].bbox.box # EmptyBox
        /\ EntryBox(RecItem(r).prov[q]).exc # "none"}

\* the sequence s without its q-th entry
RemoveAt(s, q) == SubSeq(s, 1, q - 1) \o SubSeq(s, q + 1, Len(s))

\* the input without the q-th provenance entry of record r
Without(r, q) ==
    [data EXCEPT ![r[2]] = [@ EXCEPT ![r[3]] = [@ EXCEPT !.prov = RemoveAt(@, q)]]]

\* C25: when normalising one provenance box of a record fails, the parse
\* completes and the Document is the one built from the same input with that
\* provenance entry removed
C25_ConversionFailureContained ==
    pc \in {"done", "raised"} =>
        \A e \in FailingEntries :
            /\ pc = "done"
            /\ parse(Without(e[1], e[2])).exc = "none"
            /\ doc = parse(Without(e[1], e[2])).doc

\* the part of C25 the code keeps: a failure with KeyError or ValueError in a
\* parse that completes drops the occurrence and nothing else
C25_CaughtFailureDropsOccurrence ==
    pc = "done" =>
        \A e \in FailingEntries :
            /\ EntryBox(RecItem(e[1]).prov[e[2]]).exc \in {"KeyError", "ValueError"}
            /\ parse(Without(e[1], e[2])).exc = "none"
            /\ doc = parse(Without(e[1], e[2])).doc

\* a completed parse is the parse of its input
C25_ParseIsTheStepwiseParse ==
    /\ pc = "done" => (parse(data).exc = "none" /\ parse(data).doc = doc)
    /\ pc = "raised" => parse(data).exc = exc

\* a completed parse of an input with a failing entry beside a surviving one
C25_CaughtWitness ==
    /\ pc = "done"
    /\ \E e \in FailingEntries :
          /\ Len(RecItem(e[1]).prov) = 2
          /\ doc.items_by_id # EmptyDict

\* what tells one emitted element from another: identifier, occurrence,
\* furniture flag and whether the table collector made it
Brief(e) ==
    [id |-> e.id, page_no |-> e.page_no, bbox |-> e.bbox,
     is_furniture |-> e.is_furniture, table |-> IsTableItem(e)]

\* the elements one record gives under an identifier, in provenance order
OccurrencesOf(item, id, furniture, table) ==
    LET kept == SelectSeq(item.prov, Survives)
    IN  [q \in 1..Len(kept) |->
            [id |-> id, page_no |-> NamedPage(kept[q]), bbox |-> EntryBox(kept[q]).val,
             is_furniture |-> furniture, table |-> table]]

\* the elements of the records i.. of one collection, in record order
RECURSIVE CollectionOrder(_, _, _)
CollectionOrder(coll, prefix, i) ==
    IF i > Len(data[coll]) THEN <<>>
    ELSE OccurrencesOf(data[coll][i], RecId(<<prefix, coll, i>>), FALSE, coll = "tables")
         \o CollectionOrder(coll, prefix, i + 1)

\* the furniture elements of the text records i.. matched by reference ref
RECURSIVE ReferenceOrder(_, _)
ReferenceOrder(ref, i) ==
    IF i > Len(data.texts) THEN <<>>
    ELSE (IF Matches(ref, data.texts[i])
          THEN OccurrencesOf(data.texts[i], FurnitureId(i), TRUE, FALSE) ELSE <<>>)
         \o ReferenceOrder(ref, i + 1)

RECURSIVE FurnitureOrder(_)
FurnitureOrder(c) ==
    IF data.furniture.k # "dict" \/ data.furniture.children.k # "list" THEN <<>>
    ELSE IF c > Len(data.furniture.children.items) THEN <<>>
    ELSE ReferenceOrder(ref_of(data.furniture.children.items[c]), 1) \o FurnitureOrder(c + 1)

\* emission order: all text records, then tables, then pictures, then
\* furniture, each in record order and provenance order within a record
EmissionOrder ==
    CollectionOrder("texts", "text_", 1) \o CollectionOrder("tables", "table_", 1)
    \o CollectionOrder("pictures", "picture_", 1) \o FurnitureOrder(1)

\* the last position of emission order with identifier id
LastEmitted(id) ==
    CHOOSE k \in 1..Len(EmissionOrder) :
        /\ EmissionOrder[k].id = id
        /\ \A l \in (k + 1)..Len(EmissionOrder) : EmissionOrder[l].id # id

\* C26: after build() the index holds, for every identifier emitted, the
\* element emitted last with it, emission order being texts, tables,
\* pictures, furniture, each in record order and provenance order; the
\* earlier elements with that identifier stay in the item lists of their pages
C26_IndexKeepsLastEmitted ==
    pc = "done" =>
        /\ Len(emitted) = Len(EmissionOrder)
        /\ \A k \in 1..Len(emitted) : Brief(emitted[k]) = EmissionOrder[k]
        /\ DOMAIN doc.items_by_id = {EmissionOrder[k].id : k \in 1..Len(EmissionOrder)}
        /\ \A id \in DOMAIN doc.items_by_id :
              /\ Brief(doc.items_by_id[id]) = EmissionOrder[LastEmitted(id)]
              /\ doc.items_by_id[id] = emitted[LastEmitted(id)]
        /\ \A k \in 1..Len(emitted) :
              HasPage(doc.pages, emitted[k].page_no) => ListedOnItsPage(emitted[k])

\* an identifier shared by a text record and a table record, both on declared
\* pages: the index holds the table, the text element is still listed
C26_Witness ==
    /\ pc = "done"
    /\ \E k, l \in 1..Len(emitted) :
          /\ k < l
          /\ emitted[k].id = emitted[l].id
          /\ ~IsTableItem(emitted[k])
          /\ IsTableItem(emitted[l])
          /\ doc.items_by_id[emitted[k].id] = emitted[l]
          /\ emitted[k] # emitted[l]
          /\ ListedOnItsPage(emitted[k])

\* C27: every cell owned by a table element of the Document has width > 0
\* and height > 0: the table collector discards a cell whose normalised
\* rectangle is degenerate
C27_TableCellsHaveValidGeometry ==
    pc = "done" =>
        \A e \in Held :
            IsTableItem(e) =>
                \A c \in 1..Len(e.cells) :
                    e.cells[c].bbox.width > 0 /\ e.cells[c].bbox.height > 0

\* what the code does instead: it keeps a cell for every source cell with a
\* non-empty bbox, degenerate or not
C27_EveryBoxedCellIsKept ==
    pc = "done" =>
        \A k \in 1..Len(emitted) :
            IsTableItem(emitted[k]) =>
                \E i \in 1..Len(data.tables) :
                    /\ RecId(<<"table_", "tables", i>>) = emitted[k].id
                    /\ Len(emitted[k].cells) = Len(SourceCells(data.tables[i]))

\* the grid a table record is read from: grid, else table_cells, else none
GridOf(item) ==
    IF item.data.k = "absent" THEN <<>>
    ELSE IF item.data.grid.k # "absent" THEN item.data.grid.entries
    ELSE IF item.data.table_cells.k # "absent" THEN item.data.table_cells.entries
    ELSE <<>>

\* the grid is two-dimensional: its first entry is a list
TwoDimensional(grid) == grid # <<>> /\ grid[1].k = "list"

\* the rows of a two-dimensional grid one after the other
RECURSIVE RowsConcat(_)
RowsConcat(grid) ==
    IF grid = <<>> THEN <<>>
    ELSE [c \in 1..Len(grid[1].row) |-> Cell(grid[1].row[c])] \o RowsConcat(Tail(grid))

\* the table record with a two-dimensional grid replaced by the flat list of
\* its rows
FlatForm(item) ==
    IF TwoDimensional(GridOf(item))
    THEN [item EXCEPT !.data =
             [@ EXCEPT !.grid = Grid(RowsConcat(GridOf(item))), !.table_cells = NoGrid]]
    ELSE item

\* the input with every table in flat form
FlatInput == [data EXCEPT !.tables = [i \in 1..Len(@) |-> FlatForm(@[i])]]

\* the source cells with a bbox, in flat order
BoxedCells(item) ==
    LET flat == GridOf(FlatForm(item))
    IN  SelectSeq([c \in 1..Len(flat) |-> flat[c].cell], KeptCell)

\* C29: a table's grid given as rows yields the same ordered cells as the
\* flat list of its rows one after the other, the form being chosen by
\* whether the first grid entry is a list; a cell without a bbox is omitted
\* in both forms; an empty or missing grid yields zero cells without error
C29_GridFormsAgree ==
    /\ pc = "done" =>
          /\ parse(FlatInput).exc = "none"
          /\ parse(FlatInput).doc = doc
          /\ \A k \in 1..Len(emitted) :
                IsTableItem(emitted[k]) =>
                    \E i \in 1..Len(data.tables) :
                        /\ RecId(<<"table_", "tables", i>>) = emitted[k].id
                        /\ Len(emitted[k].cells) = Len(BoxedCells(data.tables[i]))
                        /\ \A c \in 1..Len(emitted[k].cells) :
                              emitted[k].cells[c].text
                                  = Get(BoxedCells(data.tables[i])[c].text, Str(<<>>)).s
    /\ pc = "raised" => parse(FlatInput).exc = exc

\* a table read from two rows with cells in both, one of them without bbox
C29_Witness ==
    /\ pc = "done"
    /\ \E i \in 1..Len(data.tables) :
          /\ TwoDimensional(GridOf(data.tables[i]))
          /\ Len(GridOf(data.tables[i])) = 2
          /\ Len(GridOf(data.tables[i])[1].row) >= 1
          /\ Len(GridOf(data.tables[i])[2].row) >= 1
          /\ Len(BoxedCells(data.tables[i])) < Len(RowsConcat(GridOf(data.tables[i])))
          /\ \E k \in 1..Len(emitted) :
                /\ emitted[k].id = RecId(<<"table_", "tables", i>>)
                /\ IsTableItem(emitted[k])
                /\ Len(emitted[k].cells) >= 2

\* a table without grid and one with an empty grid, built with zero cells
C29_WitnessNoGrid ==
    /\ pc = "done"
    /\ \E i \in 1..Len(data.tables) :
          /\ GridOf(data.tables[i]) = <<>>
          /\ \E k \in 1..Len(emitted) :
                /\ emitted[k].id = RecId(<<"table_", "tables", i>>)
                /\ IsTableItem(emitted[k])
                /\ emitted[k].cells = <<>>

\* the elements of emission order that are on page p
OnPage(p) == SelectSeq(EmissionOrder, LAMBDA e : e.page_no = p)

\* C30: within each page's item list the elements of one collector are in
\* source order (record order, then provenance order) and the collectors'
\* groups are in the order texts, tables, pictures, furniture, whatever the
\* positions of the elements on the page
C30_PageListsInSourceOrder ==
    pc = "done" =>
        \A i \in 1..Len(doc.pages) :
            [j \in 1..Len(doc.pages[i].items) |-> Brief(doc.pages[i].items[j])]
                = OnPage(doc.pages[i].page_no)

\* a page listing two occurrences of which the first lies below the second
C30_Witness ==
    /\ pc = "done"
    /\ \E i \in 1..Len(doc.pages) :
          \E j \in 1..(Len(doc.pages[i].items) - 1) :
              doc.pages[i].items[j].bbox.y > doc.pages[i].items[j + 1].bbox.y

\* a page listing a table ahead of a furniture element
C30_WitnessGroups ==
    /\ pc = "done"
    /\ \E i \in 1..Len(doc.pages) :
          \E j, k \in 1..Len(doc.pages[i].items) :
              /\ j < k
              /\ IsTableItem(doc.pages[i].items[j])
              /\ doc.pages[i].items[k].is_furniture

\* C28: for every order in which the page workers complete, render_pdf_pages
\* returns a list with exactly one entry per page 1..N of the PDF in
\* ascending page number, the same list whatever the interleaving, and
\* returns it only after every worker has completed
C28_RasterResultIndependentOfCompletionOrder ==
    (call.op = "render_pdf_pages" /\ call.st = "returned") =>
        /\ Len(call.ret) = Len(call.pdf)
        /\ \A i \in 1..Len(call.ret) :
              /\ call.ret[i].page_no = i
              /\ call.ret[i].width_px = call.pdf[i][1] * 2
              /\ call.ret[i].height_px = call.pdf[i][2] * 2
              /\ call.ret[i].filename = <<"page_", ToString(i), ".png">>
        /\ \A i \in DOMAIN call.worker : call.worker[i] = "done"
        /\ call.completed = <<>>

\* three pages collected as 2, 3, 1 and returned as 1, 2, 3
C28_Witness ==
    /\ call.op = "render_pdf_pages"
    /\ call.st = "returned"
    /\ Len(call.images_info) = 3
    /\ call.images_info[1].page_no = 2
    /\ call.images_info[2].page_no = 3
    /\ call.images_info[3].page_no = 1
    /\ call.ret[1].page_no = 1

=============================================================================
